---- MODULE Spec2Model ----
(***************************************************************************)
(* Determinism verification harness of mtg-forge-rs.                        *)
(*                                                                         *)
(* The harness runs the game engine once continuously, extracts the        *)
(* decisions from its transcript, then replays the game in suspend/resume  *)
(* segments and compares filtered action logs and final game states.       *)
(*                                                                         *)
(* Text is modelled at token granularity: a line is a sequence of tokens   *)
(* (strings), a transcript is a sequence of lines.  "k in line" of the     *)
(* source is the contiguous occurrence of k's tokens in the line.  The     *)
(* engine's standard output is line oriented: every line it prints ends    *)
(* with a newline, so concatenating transcripts concatenates line lists.   *)
(***************************************************************************)
EXTENDS Integers, Sequences, FiniteSets, TLC

\* ------------------------------------------------------------------ bounds
MaxDecisions == 7
MaxReplays == 2
MaxFaults == 1
MaxTotal == 8
MaxLen == 2

\* -------------------------------------------------------- program constants
\* num_stops=5 passed by run_test_for_deck
NumStops == 5
\* random.seed(seed + replay_num + 1000)
SeedOffset == 1000
\* --seed default
DefaultSeed == 42

\* ------------------------------------------------------------- text layer
Min(a, b) == IF a <= b THEN a ELSE b
Max(a, b) == IF a >= b THEN a ELSE b

\* pattern `pat` (a token sequence) occurs contiguously in `line`
Contains(line, pat) ==
    \E i \in 1..(Len(line) - Len(pat) + 1) : \A j \in 1..Len(pat) : line[i + j - 1] = pat[j]

\* str.lower() on the tokens that carry capitals the filter cares about
LowerTok(t) ==
    CASE t = "Snapshot" -> "snapshot"
      [] t = "Resuming" -> "resuming"
      [] t = "Stopping" -> "stopping"
      [] OTHER -> t

Lower(line) == [i \in 1..Len(line) |-> LowerTok(line[i])]

\* whitespace that str.strip() removes; "CR" is a carriage return
IsSpace(t) == t = " " \/ t = "CR"

RECURSIVE LStrip(_)
LStrip(line) ==
    IF line # <<>> /\ IsSpace(Head(line)) THEN LStrip(Tail(line)) ELSE line

RECURSIVE RStrip(_)
RStrip(line) ==
    IF line # <<>> /\ IsSpace(line[Len(line)])
    THEN RStrip(SubSeq(line, 1, Len(line) - 1))
    ELSE line

\* str.strip()
Strip(line) == RStrip(LStrip(line))

\* the action vocabulary of filter_game_actions
Keywords ==
    { <<"draws ">>, <<"plays ">>, <<"casts ">>, <<"attacks ">>, <<"blocks ">>,
      <<"damage ">>, <<"dies">>, <<"destroyed">>, <<"sacrificed">>, <<"discards">>,
      <<"to graveyard">>, <<"Turn ">>, <<"wins!">>, <<"Game Over">>, <<"Life:">>,
      <<"Turns played:">> }

\* any(keyword in stripped ...): every keyword is one token, so it occurs in the
\* line exactly when some token of the line is that keyword
HasKeyword(stripped) == \E n \in 1..Len(stripped) : <<stripped[n]>> \in Keywords

\* the exclusion tests without the one for "Turn number:"
IsExcludedKeepingTurnNumber(stripped) ==
    LET lower == Lower(stripped)
    IN
    \/ Contains(lower, <<"snapshot">>)
    \/ Contains(lower, <<"resuming">>)
    \/ Contains(stripped, <<"Stopping", " after">>)
    \/ Contains(lower, <<"stopping">>)
    \/ Contains(stripped, <<"[SUPPRESSED]">>)
    \/ Contains(stripped, <<"EMOJI_RESUME">>)
    \/ Contains(stripped, <<"EMOJI_SNAPSHOT">>)
    \/ Contains(stripped, <<"EMOJI_OK">>)
    \/ Contains(stripped, <<"[STATE:">>)

\* the exclusion tests of filter_game_actions, in source order
IsExcluded(stripped) ==
    LET lower == Lower(stripped)
    IN
    \/ Contains(lower, <<"snapshot">>)
    \/ Contains(lower, <<"resuming">>)
    \/ Contains(stripped, <<"Stopping", " after">>)
    \/ Contains(lower, <<"stopping">>)
    \/ Contains(stripped, <<"Turn ", "number:">>)
    \/ Contains(stripped, <<"[SUPPRESSED]">>)
    \/ Contains(stripped, <<"EMOJI_RESUME">>)
    \/ Contains(stripped, <<"EMOJI_SNAPSHOT">>)
    \/ Contains(stripped, <<"EMOJI_OK">>)
    \/ Contains(stripped, <<"[STATE:">>)

\* one iteration of the loop of filter_game_actions: the stripped line is appended
\* when it is not empty, a keyword occurs in it and none of the `continue` tests holds
KeepsLine(line) ==
    LET stripped == Strip(line)
    IN  /\ stripped # <<>>
        /\ HasKeyword(stripped)
        /\ ~IsExcluded(stripped)

\* the filter without the strip of the kept lines
filter_unstripped(log) == SelectSeq(log, KeepsLine)

\* filter_game_actions: the stripped lines that are kept, in the order of the log
filter_game_actions(log) ==
    LET kept == SelectSeq(log, KeepsLine)
    IN  [n \in 1..Len(kept) |-> Strip(kept[n])]

\* ------------------------------------------------------ choice extraction
DigitToks == <<"0", "1", "2", "3", "4", "5", "6", "7", "8", "9">>
IsDigit(t) == \E d \in 1..10 : DigitToks[d] = t
DigitVal(t) == (CHOOSE d \in 1..10 : DigitToks[d] = t) - 1
Digit(n) == DigitToks[n + 1]

\* value of the run of digit tokens starting at position i (\d+ is greedy)
RECURSIVE DigitsFrom(_, _, _)
DigitsFrom(line, i, acc) ==
    IF i <= Len(line) /\ IsDigit(line[i])
    THEN DigitsFrom(line, i + 1, acc * 10 + DigitVal(line[i]))
    ELSE acc

\* positions where re.search(r'chose (\d+)') can match
ChoseAt(line) == { i \in 1..(Len(line) - 1) : line[i] = "chose " /\ IsDigit(line[i + 1]) }

NoChoice == -1

\* an extraction that looks for a number first and for the phrase second
extract_number_before_phrase(line) ==
    IF ChoseAt(line) # {}
    THEN LET i == CHOOSE j \in ChoseAt(line) : \A k \in ChoseAt(line) : j <= k
         IN  DigitsFrom(line, i + 1, 0)
    ELSE IF Contains(line, <<"chose ", "no attackers">>) THEN 0
         ELSE NoChoice

\* extract_choice_from_line; None is NoChoice
extract_choice_from_line(line) ==
    IF Contains(line, <<"chose ", "no attackers">>) THEN 0
    ELSE IF ChoseAt(line) # {}
         THEN LET i == CHOOSE j \in ChoseAt(line) : \A k \in ChoseAt(line) : j <= k
              IN  DigitsFrom(line, i + 1, 0)
         ELSE NoChoice

IsChoiceLine(line) ==
    \/ Contains(line, <<">>> RANDOM:">>)
    \/ Contains(line, <<">>> HEURISTIC:">>)
    \/ Contains(line, <<">>> ZERO:">>)

\* a cursor that is set by the first marker and never moves again
NextPlayerFirstMarkerOnly(cur, line) ==
    IF cur # "none" THEN cur
    ELSE IF Contains(line, <<"Alice's turn">>) \/ Contains(line, <<"Alice (active)">>) THEN "p1"
    ELSE IF Contains(line, <<"Bob's turn">>) \/ Contains(line, <<"Bob (active)">>) THEN "p2"
    ELSE cur

\* the turn-owner cursor after seeing `line`
NextPlayer(cur, line) ==
    IF Contains(line, <<"Alice's turn">>) \/ Contains(line, <<"Alice (active)">>) THEN "p1"
    ELSE IF Contains(line, <<"Bob's turn">>) \/ Contains(line, <<"Bob (active)">>) THEN "p2"
    ELSE cur

\* extract_choices_from_log, as a fold over the lines; acc = [cur, p1, p2]
RECURSIVE ExtractFold(_, _)
ExtractFold(log, acc) ==
    IF log = <<>> THEN acc
    ELSE LET line == Head(log)
             cur == NextPlayer(acc.cur, line)
             c == IF IsChoiceLine(line) THEN extract_choice_from_line(line) ELSE NoChoice
         IN  ExtractFold(Tail(log),
                 [cur |-> cur,
                  p1 |-> IF c # NoChoice /\ cur = "p1" THEN Append(acc.p1, c) ELSE acc.p1,
                  p2 |-> IF c # NoChoice /\ cur = "p2" THEN Append(acc.p2, c) ELSE acc.p2])

extract_choices_from_log(log) == ExtractFold(log, [cur |-> "none", p1 |-> <<>>, p2 |-> <<>>])

\* ----------------------------------------------------------- diff_logs.py
\* text-mode reading splits a line at every carriage return (universal newlines)
RECURSIVE SplitCR(_, _)
SplitCR(line, cur) ==
    IF line = <<>> THEN <<cur>>
    ELSE IF Head(line) = "CR" THEN <<cur>> \o SplitCR(Tail(line), <<>>)
         ELSE SplitCR(Tail(line), Append(cur, Head(line)))

HasCR(line) == \E n \in 1..Len(line) : line[n] = "CR"

\* the lines read back from a file holding '\n'.join(written)
RECURSIVE FileLines(_)
FileLines(written) ==
    IF \A n \in 1..Len(written) : ~HasCR(written[n]) THEN written
    ELSE SplitCR(Head(written), <<>>) \o FileLines(Tail(written))

NotBlank(line) == Strip(line) # <<>>

\* [line.strip() for line in f if line.strip()]
StripNonEmpty(lines) ==
    LET kept == SelectSeq(lines, NotBlank)
    IN  [n \in 1..Len(kept) |-> Strip(kept[n])]

\* read_action_log applied to a file holding '\n'.join(actions)
read_action_log(written) == StripNonEmpty(FileLines(written))

\* a comparison that walks the common positions and never looks at the lengths
compare_logs_common_positions(normal_actions, stopgo_actions) ==
    IF Len(normal_actions) = 0 \/ Len(stopgo_actions) = 0 THEN FALSE
    ELSE \A i \in 1..Min(Len(normal_actions), Len(stopgo_actions)) :
             normal_actions[i] = stopgo_actions[i]

\* a comparison without the test for an empty side
compare_logs_nonempty_only(normal_actions, stopgo_actions) ==
    /\ Len(normal_actions) = Len(stopgo_actions)
    /\ \A i \in 1..Min(Len(normal_actions), Len(stopgo_actions)) :
           normal_actions[i] = stopgo_actions[i]

\* compare_logs: the returned match flag
compare_logs(normal_actions, stopgo_actions) ==
    IF Len(normal_actions) = 0 \/ Len(stopgo_actions) = 0 THEN FALSE
    ELSE /\ Len(normal_actions) = Len(stopgo_actions)
         /\ \A i \in 1..Min(Len(normal_actions), Len(stopgo_actions)) :
                normal_actions[i] = stopgo_actions[i]

\* what compare_logs prints: one record per printed block, in print order. `line`
\* and `last` are the 1-based labels the block shows
ShownDifferences == 20
CommonShown == 5
ExtraShown == 10

Printed(kind, side, line, last) == [kind |-> kind, side |-> side, line |-> line, last |-> last]

\* a cut-off that hides the last of the differences the tool is meant to show
ShowsDifferenceOffByOne(verbose, i) == verbose /\ i + 1 < ShownDifferences

\* `if verbose and i < 20`, i counted from 0
ShowsDifference(verbose, i) == verbose /\ i < ShownDifferences

Positions(n) == [p \in 1..n |-> p]

\* the `Line {i+1} differs:` blocks of the loop over the common positions
DifferingLines(normal_actions, stopgo_actions, verbose) ==
    LET common == Positions(Min(Len(normal_actions), Len(stopgo_actions)))
        Shown(p) == normal_actions[p] # stopgo_actions[p] /\ ShowsDifference(verbose, p - 1)
        shown == SelectSeq(common, Shown)
    IN  [n \in 1..Len(shown) |-> Printed("differs", "both", shown[n], shown[n])]

\* the blocks printed when the lengths differ: the last common actions, then the
\* extra actions of the longer side starting at label shorter + 1
LengthReport(normal_actions, stopgo_actions) ==
    LET shorter == Min(Len(normal_actions), Len(stopgo_actions))
        longer == Max(Len(normal_actions), Len(stopgo_actions))
        side == IF Len(normal_actions) > Len(stopgo_actions) THEN "normal" ELSE "stopgo"
    IN  << Printed("common", "normal", Max(0, shorter - CommonShown) + 1, shorter),
           Printed("extra", side, shorter + 1, Min(shorter + ExtraShown, longer)) >>

compare_logs_output(normal_actions, stopgo_actions, verbose) ==
    IF Len(normal_actions) = 0 \/ Len(stopgo_actions) = 0
    THEN << Printed("empty", "both", 0, 0) >>
    ELSE (IF Len(normal_actions) # Len(stopgo_actions)
          THEN << Printed("count_mismatch", "both", 0, 0) >> ELSE <<>>)
         \o DifferingLines(normal_actions, stopgo_actions, verbose)
         \o (IF Len(normal_actions) # Len(stopgo_actions)
             THEN LengthReport(normal_actions, stopgo_actions) ELSE <<>>)

\* compare_game_logs_via_tool: filter both logs, write them, run diff_logs.py on the
\* files; the tool exits 0 exactly when compare_logs returns True
compare_game_logs_via_tool(normal_log, stopgo_log) ==
    compare_logs(read_action_log(filter_game_actions(normal_log)),
                 read_action_log(filter_game_actions(stopgo_log)))

\* ------------------------------------------------------ diff_gamestate.py
\* JSON values: numbers, objects (key/value pairs in file order), arrays
JNum(n) == [t |-> "num", n |-> n, kv |-> <<>>, xs |-> <<>>]
JObj(kv) == [t |-> "obj", n |-> 0, kv |-> kv, xs |-> <<>>]
JArr(xs) == [t |-> "arr", n |-> 0, kv |-> <<>>, xs |-> xs]

MetadataFields ==
    { "choice_id", "undo_log", "show_choice_menu", "output_mode",
      "output_format", "numeric_choices", "step_header_printed" }

\* a strip that copies sequences as they are instead of descending into them
RECURSIVE strip_skipping_lists(_)
strip_skipping_lists(obj) ==
    IF obj.t = "obj"
    THEN LET kept == SelectSeq(obj.kv, LAMBDA p : p[1] \notin MetadataFields)
         IN  JObj([i \in 1..Len(kept) |-> <<kept[i][1], strip_skipping_lists(kept[i][2])>>])
    ELSE obj

RECURSIVE strip_metadata_fields(_)
strip_metadata_fields(obj) ==
    IF obj.t = "obj"
    THEN LET kept == SelectSeq(obj.kv, LAMBDA p : p[1] \notin MetadataFields)
         IN  JObj([i \in 1..Len(kept) |-> <<kept[i][1], strip_metadata_fields(kept[i][2])>>])
    ELSE IF obj.t = "arr"
         THEN JArr([i \in 1..Len(obj.xs) |-> strip_metadata_fields(obj.xs[i])])
         ELSE obj

\* test_snapshot_determinism.py: the same walk with a longer list of fields
SnapshotMetadataFields ==
    { "choice_id", "undo_log", "intra_turn_choices", "logger", "show_choice_menu",
      "output_mode", "output_format", "numeric_choices", "step_header_printed",
      "p1_controller_state", "p2_controller_state", "lands_played_this_turn" }

RECURSIVE strip_metadata(_)
strip_metadata(obj) ==
    IF obj.t = "obj"
    THEN LET kept == SelectSeq(obj.kv, LAMBDA p : p[1] \notin SnapshotMetadataFields)
         IN  JObj([i \in 1..Len(kept) |-> <<kept[i][1], strip_metadata(kept[i][2])>>])
    ELSE IF obj.t = "arr"
         THEN JArr([i \in 1..Len(obj.xs) |-> strip_metadata(obj.xs[i])])
         ELSE obj

\* the keys the model's documents use, in sorted (code point) order
SortedKeys ==
    << "choice_id", "game_state", "lands_played_this_turn", "life", "logger",
       "p1_controller_state", "players", "show_choice_menu",
       "timestamp", "turn", "undo_log" >>
KeyRank(k) == CHOOSE i \in 1..Len(SortedKeys) : SortedKeys[i] = k

\* insertion of a pair into a list of pairs sorted by key
RECURSIVE InsertPair(_, _)
InsertPair(sorted, p) ==
    IF sorted = <<>> THEN <<p>>
    ELSE IF KeyRank(p[1]) <= KeyRank(Head(sorted)[1])
         THEN <<p>> \o sorted
         ELSE <<Head(sorted)>> \o InsertPair(Tail(sorted), p)

\* a dump that writes the keys in the order the mapping holds them
PairsInFileOrder(kv) == kv

RECURSIVE SortPairs(_)
SortPairs(kv) == IF kv = <<>> THEN <<>> ELSE InsertPair(SortPairs(Tail(kv)), Head(kv))

\* a dump that writes the elements of a sequence in an order of its own
RECURSIVE json_dumps_unordered(_)
json_dumps_unordered(v) ==
    IF v.t = "obj"
    THEN LET s == SortPairs(v.kv)
         IN  JObj([i \in 1..Len(s) |-> <<s[i][1], json_dumps_unordered(s[i][2])>>])
    ELSE IF v.t = "arr"
         THEN LET elements == { json_dumps_unordered(v.xs[i]) : i \in 1..Len(v.xs) }
              IN  JArr(CHOOSE q \in [1..Cardinality(elements) -> elements] :
                           { q[i] : i \in 1..Cardinality(elements) } = elements)
         ELSE v

\* json.dumps(v, sort_keys=True): the text is determined by the value with the
\* keys of every object sorted
RECURSIVE json_dumps_sorted(_)
json_dumps_sorted(v) ==
    IF v.t = "obj"
    THEN LET s == SortPairs(v.kv)
         IN  JObj([i \in 1..Len(s) |-> <<s[i][1], json_dumps_sorted(s[i][2])>>])
    ELSE IF v.t = "arr"
         THEN JArr([i \in 1..Len(v.xs) |-> json_dumps_sorted(v.xs[i])])
         ELSE v

HasKey(doc, k) == \E i \in 1..Len(doc.kv) : doc.kv[i][1] = k

\* dict.get(k, {})
DictGet(doc, k) ==
    IF HasKey(doc, k)
    THEN doc.kv[CHOOSE i \in 1..Len(doc.kv) : doc.kv[i][1] = k][2]
    ELSE JObj(<<>>)

\* a comparison of the whole documents, envelope included
compare_whole_documents(normal_state, stopgo_state) ==
    json_dumps_sorted(strip_metadata_fields(normal_state)) =
        json_dumps_sorted(strip_metadata_fields(stopgo_state))

\* a comparison that takes a document without game_state for a failed capture
compare_gamestates_required(normal_state, stopgo_state) ==
    /\ HasKey(normal_state, "game_state") /\ HasKey(stopgo_state, "game_state")
    /\ json_dumps_sorted(strip_metadata_fields(DictGet(normal_state, "game_state"))) =
           json_dumps_sorted(strip_metadata_fields(DictGet(stopgo_state, "game_state")))

\* compare_gamestates on two loaded documents
compare_gamestates(normal_state, stopgo_state) ==
    LET normal_gs == strip_metadata_fields(DictGet(normal_state, "game_state"))
        stopgo_gs == strip_metadata_fields(DictGet(stopgo_state, "game_state"))
    IN  json_dumps_sorted(normal_gs) = json_dumps_sorted(stopgo_gs)

\* ---------------------------------------------------------- stop planning
\* the requested number of stops, not adjusted to the choices there are
requested_num_stops(total_choices, num_stops) == num_stops

\* actual_num_stops = min(num_stops, max(1, total_choices - 1))
actual_num_stops(total_choices, num_stops) == Min(num_stops, Max(1, total_choices - 1))

\* choices_per_stop = max(1, total_choices // (actual_num_stops + 1))
choices_per_stop(total_choices, actual) == Max(1, total_choices \div (actual + 1))

\* the choices left, with none held back for the stops still to come
RemainingUnreserved(total_choices, actual, i, cumulative) == total_choices - cumulative

\* remaining = total_choices - cumulative - (actual_num_stops - i)
Remaining(total_choices, actual, i, cumulative) == total_choices - cumulative - (actual - i)

\* an upper end that is not clamped to the remaining choices
DrawHiUnclamped(cps, remaining) == cps * 2

\* upper end of random.randint(1, min(choices_per_stop * 2, remaining))
DrawHi(cps, remaining) == Min(cps * 2, remaining)

\* the loop "for i in range(actual_num_stops)" goes on at index i
LoopContinues(total_choices, actual, i, cumulative) ==
    i < actual /\ Remaining(total_choices, actual, i, cumulative) > 0

\* "if not stop_points: stop_points = [1]"
AtLeastOneStop(stop_points) == IF stop_points = <<>> THEN <<1>> ELSE stop_points

\* "if advance > 0: cumulative += advance; stop_points.append(advance)"
AfterAdvance(cumulative, stop_points, advance) ==
    IF advance > 0
    THEN [cumulative |-> cumulative + advance, stop_points |-> Append(stop_points, advance)]
    ELSE [cumulative |-> cumulative, stop_points |-> stop_points]

\* every list of stop points the loop can produce, over all draws of the generator
RECURSIVE PlanLoopSet(_, _, _, _, _, _)
PlanLoopSet(total_choices, actual, cps, i, cumulative, stop_points) ==
    IF ~LoopContinues(total_choices, actual, i, cumulative)
    THEN {AtLeastOneStop(stop_points)}
    ELSE UNION { PlanLoopSet(total_choices, actual, cps, i + 1,
                             AfterAdvance(cumulative, stop_points, advance).cumulative,
                             AfterAdvance(cumulative, stop_points, advance).stop_points) :
                 advance \in 1..DrawHi(cps, Remaining(total_choices, actual, i, cumulative)) }

StopPlans(total_choices, num_stops) ==
    LET actual == actual_num_stops(total_choices, num_stops)
    IN  PlanLoopSet(total_choices, actual, choices_per_stop(total_choices, actual), 0, 0, <<>>)

\* "for i, stop_after in enumerate(stop_points + [0])": 0 is the terminal segment
SegmentPlan(points) == points \o <<0>>

RECURSIVE SumSeq(_)
SumSeq(s) == IF s = <<>> THEN 0 ELSE Head(s) + SumSeq(Tail(s))

\* ------------------------------------------------------- the game engine
\* The engine is external; it is modelled as the environment of the harness.  A game
\* has D decisions, decision k made by Alice when k is odd and by Bob when k is even.
\* The continuous transcript prints, per decision, a turn marker, a state hash line,
\* the decision announcement and the action it causes, and ends with "Game Over".
Owner(k) == IF k % 2 = 1 THEN "Alice" ELSE "Bob"
TurnMarker(k) == IF k % 2 = 1 THEN "Alice's turn" ELSE "Bob's turn"

DecisionLines(k) ==
    << <<"Turn ", Digit(k), TurnMarker(k)>>,
       <<"[STATE:", Digit(k)>>,
       <<">>> RANDOM:", Owner(k), "chose ", Digit(k % 3)>>,
       <<Owner(k), "plays ", "card", Digit(k)>> >>

RECURSIVE ScriptUpTo(_)
ScriptUpTo(k) == IF k = 0 THEN <<>> ELSE ScriptUpTo(k - 1) \o DecisionLines(k)

GameOverLine == <<"Game Over">>
Script(D) == Append(ScriptUpTo(D), GameOverLine)

\* number of script lines printed when j decisions have been made
Cursor(j) == IF j = 0 THEN 0 ELSE 4 * (j - 1) + 3

ResumeNotice == << <<"Resuming", " from ", "Snapshot">>, <<"Turn ", "number:", "1">> >>
StopNotice(n) == << <<"Stopping", " after", Digit(n)>>, <<"Snapshot", " saved">> >>
ExtraAction == <<"Bob", "draws ", "card">>

\* files: a snapshot records the decisions made and the segment that wrote it
NoSnapshot == [exists |-> FALSE, pos |-> 0, r |-> 0, i |-> 0]
SnapshotOf(pos, r, i) == [exists |-> TRUE, pos |-> pos, r |-> r, i |-> i]
NoState == [exists |-> FALSE, doc |-> JObj(<<>>)]

\* the final state document of a game of D decisions; `life` of the winner and
\* the order of the two players are semantic, the
\* choice counter, the menu flag and the undo log vary with the number of segments
FinalDoc(D, segments, life) ==
    IF segments = 0
    THEN JObj(<< <<"timestamp", JNum(1)>>,
                 <<"game_state",
                   JObj(<< <<"turn", JNum(D)>>,
                           <<"players", JArr(<< JObj(<< <<"life", JNum(life)>>,
                                                        <<"choice_id", JNum(D)>> >>),
                                                JObj(<< <<"life", JNum(0)>> >>) >>)>>,
                           <<"choice_id", JNum(D)>>,
                           <<"show_choice_menu", JNum(0)>> >>)>> >>)
    ELSE JObj(<< <<"game_state",
                   JObj(<< <<"show_choice_menu", JNum(1)>>,
                           <<"undo_log", JArr(<< JNum(segments), JNum(0) >>)>>,
                           <<"choice_id", JNum(D + segments)>>,
                           <<"players", JArr(<< JObj(<< <<"choice_id", JNum(segments)>>,
                                                        <<"life", JNum(life)>> >>),
                                                JObj(<< <<"life", JNum(0)>> >>) >>)>>,
                           <<"turn", JNum(D)>> >>)>>,
                 <<"timestamp", JNum(2)>> >>)

StartLife == 20

\* what one engine process may do
Behaviours ==
    {"ok", "crash", "timeout", "no_snapshot", "early_end", "no_state",
     "diverge_log", "diverge_state"}

\* the stop requested by --stop-every is reached before the game ends
StopReached(D, cmd) == cmd.stop_after > 0 /\ cmd.start_pos + cmd.stop_after <= D

\* behaviour b is possible for command cmd on a game of D decisions
Possible(D, cmd, b) ==
    CASE b \in {"ok", "crash", "timeout"} -> TRUE
      [] b = "no_snapshot" -> StopReached(D, cmd)
      [] b = "early_end" -> StopReached(D, cmd)
      [] b = "no_state" -> cmd.save /\ ~StopReached(D, cmd)
      [] b = "diverge_state" -> cmd.save /\ ~StopReached(D, cmd) /\ cmd.run > 0
      [] b = "diverge_log" -> cmd.run > 0 /\ ~StopReached(D, cmd)
      [] OTHER -> FALSE

\* the result of one engine process: exit code, transcript, files written
EngineRun(D, cmd, b) ==
    LET stops == StopReached(D, cmd) /\ b # "early_end"
        end_pos == IF stops THEN cmd.start_pos + cmd.stop_after ELSE D
        from == Min(Cursor(cmd.start_pos), Len(Script(D)))
        upto == IF stops THEN Cursor(end_pos) ELSE Len(Script(D))
        played == SubSeq(Script(D), from + 1, upto)
        body == IF b = "diverge_log" THEN Append(played, ExtraAction) ELSE played
        out == (IF cmd.resume THEN ResumeNotice ELSE <<>>) \o body
                  \o (IF stops THEN StopNotice(cmd.stop_after) ELSE <<>>)
    IN  [ timeout |-> b = "timeout",
          returncode |-> IF b \in {"crash", "timeout"} THEN 1 ELSE 0,
          stdout |-> IF b \in {"crash", "timeout"} THEN <<>> ELSE out,
          writes_snapshot |-> stops /\ cmd.snapshot_output /\ b \notin {"crash", "timeout", "no_snapshot"},
          snapshot |-> SnapshotOf(end_pos, cmd.run, cmd.seg),
          writes_state |-> ~stops /\ cmd.save /\ b \notin {"crash", "timeout", "no_state"},
          state |-> [exists |-> TRUE,
                     doc |-> FinalDoc(D, cmd.seg,
                                      IF b = "diverge_state" THEN StartLife - 1 ELSE StartLife)] ]

\* a game-over test that never finds the marker
GameNeverEnded(stdout) == FALSE

\* "Game Over" in result.stdout or "wins!" in result.stdout
GameEnded(stdout) ==
    \E n \in 1..Len(stdout) :
        Contains(stdout[n], <<"Game Over">>) \/ Contains(stdout[n], <<"wins!">>)

\* ---------------------------------------------------------------- state
VARIABLES
    pc,                 \* where the trial is: start, normal_run, loop, segment_run, fallback_run, done
    cardsfolder,        \* Path("cardsfolder").exists()
    deck_exists,        \* Path(args.deck_path).exists()
    bin_exists,         \* find_mtg_binary finds target/debug/mtg or target/release/mtg
    D,                  \* the decisions of the game the engine plays for this deck and seed
    seed,               \* args.seed
    num_replays,        \* args.replays
    work_dir,           \* the trial's temporary directory exists
    snapshot_file,      \* work_dir / "snapshot.json"
    normal_state_file,  \* work_dir / "normal.gamestate"
    stopgo_state_file,  \* work_dir / "stopgo_{replay_num}.gamestate", by replay
    normal_log,         \* transcript of the continuous run
    p1_choices,
    p2_choices,
    replay_num,
    rng_seed,           \* argument of the last random.seed call; Unseeded before any
    stop_points,
    seg,                \* index i of the segment loop
    accumulated_log,
    all_success,
    exit_code,          \* process exit status; NotExited while running
    exception,          \* the uncaught exception that ended the process, or "none"
    cmd,                \* command line of the running engine process
    running,            \* engine processes started and not yet exited
    trace,              \* history: engine starts, exits and snapshot checks
    faults,             \* history: engine processes that misbehaved so far
    results,            \* history: one record per replay that ended
    segment_logs,       \* history: what every segment process of the replay under way returned
    pl,                 \* two executions of the stop planner on the same inputs
    cl,                 \* one run of the log comparison tool on two transcripts
    dl,                 \* one run of diff_logs.py on two action sequences
    gs,                 \* two captures of one game state and their comparison
    ct,                 \* two trials running at the same time on one machine
    ex,                 \* one walk of extract_choices_from_log over a transcript
    bt,                 \* one run of the batch command over its matrix
    fl,                 \* one transcript going through filter_game_actions
    dt                  \* one run of the snapshot determinism test over its choice counts

vars ==
    << pc, cardsfolder, deck_exists, bin_exists, D, seed, num_replays, work_dir,
       snapshot_file, normal_state_file, stopgo_state_file, normal_log, p1_choices,
       p2_choices, replay_num, rng_seed, stop_points, seg, accumulated_log,
       all_success, exit_code, exception, cmd, running, trace, faults, results,
       segment_logs, pl, cl, dl, gs, ct, ex, bt, fl, dt >>

\* what no action of a trial changes
inputs == << cardsfolder, deck_exists, bin_exists, D, seed, num_replays, pl, cl, dl, gs, ct, ex, bt, fl, dt >>

\* the variables of a trial
trial ==
    << pc, cardsfolder, deck_exists, bin_exists, D, seed, num_replays, work_dir,
       snapshot_file, normal_state_file, stopgo_state_file, normal_log, p1_choices,
       p2_choices, replay_num, rng_seed, stop_points, seg, accumulated_log,
       all_success, exit_code, exception, cmd, running, trace, faults, results,
       segment_logs >>

NotExited == -1
Unseeded == 0

\* `controllers` tells which strategies the command line names ("given": the two
\* the command was started with, "fixed": the replay strategy, "none": no --p1/--p2),
\* `seed` whether it holds --seed, `fixed_inputs` the decision lists it holds
\* (<<>>: no --p1-fixed-inputs/--p2-fixed-inputs)
NoCmd ==
    [ run |-> 0, seg |-> 0, resume |-> FALSE, start_pos |-> 0, stop_after |-> 0,
      snapshot_output |-> FALSE, save |-> FALSE,
      controllers |-> "none", seed |-> FALSE, fixed_inputs |-> <<>> ]

\* run_normal_game: tui deck deck --p1 --p2 --seed --save-final-gamestate
NormalCmd ==
    [ run |-> 0, seg |-> 0, resume |-> FALSE, start_pos |-> 0, stop_after |-> 0,
      snapshot_output |-> FALSE, save |-> TRUE,
      controllers |-> "given", seed |-> TRUE, fixed_inputs |-> <<>> ]

\* the fallback of run_stop_and_go_game when no choice was extracted
FallbackCmd(r) ==
    [ run |-> r + 1, seg |-> 0, resume |-> FALSE, start_pos |-> 0, stop_after |-> 0,
      snapshot_output |-> FALSE, save |-> FALSE,
      controllers |-> "given", seed |-> TRUE, fixed_inputs |-> <<>> ]

\* segment commands that name the strategies and the seed again on every resume
SegmentCmdReseeded(r, i, stop_after, snap) ==
    [ run |-> r + 1, seg |-> i, resume |-> i # 0,
      start_pos |-> IF i = 0 THEN 0 ELSE snap.pos,
      stop_after |-> stop_after,
      snapshot_output |-> stop_after > 0,
      save |-> i # 0 /\ ~(stop_after > 0),
      controllers |-> "given", seed |-> TRUE, fixed_inputs |-> <<>> ]

\* the command of segment i of replay r: "tui" for i = 0, "resume <snapshot>" after;
\* --save-final-gamestate is added in the resume branch only, when stop_after is 0;
\* --p1, --p2 and --seed are in the "tui" command only
SegmentCmd(r, i, stop_after, snap) ==
    [ run |-> r + 1, seg |-> i, resume |-> i # 0,
      start_pos |-> IF i = 0 THEN 0 ELSE snap.pos,
      stop_after |-> stop_after,
      snapshot_output |-> stop_after > 0,
      save |-> i # 0 /\ ~(stop_after > 0),
      controllers |-> IF i = 0 THEN "given" ELSE "none",
      seed |-> i = 0,
      fixed_inputs |-> <<>> ]

Event(e, r, i, v) == [e |-> e, r |-> r, i |-> i, v |-> v]

NoStopgoStates == [r \in 0..(MaxReplays - 1) |-> NoState]

\* the trial's variables before main runs, all but the command's inputs
TrialStart ==
    /\ pc = "start"
    /\ seed = DefaultSeed
    /\ work_dir = FALSE
    /\ snapshot_file = NoSnapshot
    /\ normal_state_file = NoState
    /\ stopgo_state_file = NoStopgoStates
    /\ normal_log = <<>>
    /\ p1_choices = <<>>
    /\ p2_choices = <<>>
    /\ replay_num = 0
    /\ rng_seed = Unseeded
    /\ stop_points = <<>>
    /\ seg = 0
    /\ accumulated_log = <<>>
    /\ all_success = TRUE
    /\ exit_code = NotExited
    /\ exception = "none"
    /\ cmd = NoCmd
    /\ running = {}
    /\ trace = <<>>
    /\ faults = 0
    /\ results = <<>>
    /\ segment_logs = <<>>

\* no planner execution and no comparison under way
PlIdle == [command |-> "none"]
ClIdle == [phase |-> "none"]
Idle == [phase |-> "none"]

Init ==
    /\ TrialStart
    /\ cardsfolder \in BOOLEAN
    /\ deck_exists \in BOOLEAN
    /\ bin_exists \in BOOLEAN
    /\ D \in 0..MaxDecisions
    /\ num_replays \in 0..MaxReplays
    /\ pl = PlIdle
    /\ cl = ClIdle
    /\ dl = Idle
    /\ gs = Idle
    /\ ct = Idle
    /\ ex = Idle
    /\ bt = Idle
    /\ fl = Idle
    /\ dt = Idle

\* leaving the function without the finally clause: the directory and its files stay
CleanupSkipped ==
    UNCHANGED << work_dir, snapshot_file, normal_state_file, stopgo_state_file >>

\* shutil.rmtree(work_dir) of the finally clause: the directory and its files go
Cleanup ==
    /\ work_dir' = FALSE
    /\ snapshot_file' = NoSnapshot
    /\ normal_state_file' = NoState
    /\ stopgo_state_file' = NoStopgoStates

\* the process ends: sys.exit(code), or an uncaught exception (exit status 1), both
\* passing through the finally clause of run_test_for_deck
Exit(code, exc) ==
    /\ pc' = "done"
    /\ exit_code' = code
    /\ exception' = exc
    /\ Cleanup

\* main, up to the start of the continuous run
Main ==
    /\ pc = "start"
    /\ IF ~cardsfolder
       THEN /\ pc' = "done" /\ exit_code' = 0
            /\ UNCHANGED << work_dir, cmd, running, trace >>
       ELSE IF ~deck_exists \/ ~bin_exists
       THEN /\ pc' = "done" /\ exit_code' = 1
            /\ UNCHANGED << work_dir, cmd, running, trace >>
       ELSE /\ pc' = "normal_run"
            /\ work_dir' = TRUE
            /\ cmd' = NormalCmd
            /\ running' = running \cup {NormalCmd}
            /\ trace' = Append(trace, Event("start", 0, 0, 0))
            /\ UNCHANGED exit_code
    /\ UNCHANGED << inputs, snapshot_file, normal_state_file, stopgo_state_file,
                    normal_log, p1_choices, p2_choices, replay_num, rng_seed, stop_points,
                    seg, accumulated_log, all_success, exception, faults, results,
                    segment_logs >>

Fault(b) == IF b = "ok" THEN 0 ELSE 1

\* a timeout that is swallowed instead of raised
TimeoutSwallowed(result) == FALSE

\* subprocess.run(..., timeout=120) raises TimeoutExpired; nothing catches it
TimeoutExpired(result) == result.timeout

\* a continuous run whose exit code is not looked at
NormalNeverFailed(result) == FALSE

\* "if result.returncode != 0" of run_normal_game
NormalFailed(result) == result.returncode # 0

\* what the harness sees of a process that ended: its exit code, or the expiry of
\* the 120 s timeout of subprocess.run (the child is killed, TimeoutExpired raised)
Ended(result, r, i) ==
    IF result.timeout THEN Event("timeout", r, i, 0)
    ELSE Event("exit", r, i, result.returncode)

\* run_normal_game from the return of subprocess.run on
NormalGameExit(b) ==
    /\ pc = "normal_run"
    /\ Possible(D, cmd, b)
    /\ faults + Fault(b) <= MaxFaults
    /\ faults' = faults + Fault(b)
    /\ \E result \in {EngineRun(D, cmd, b)} :
       LET choices == extract_choices_from_log(result.stdout)
       IN  /\ running' = running \ {cmd}
           /\ trace' = Append(trace, Ended(result, 0, 0))
           /\ IF TimeoutExpired(result)
              THEN /\ Exit(1, "TimeoutExpired")
                   /\ UNCHANGED << normal_log, p1_choices, p2_choices >>
              ELSE IF NormalFailed(result)
              THEN /\ Exit(1, "SystemExit")
                   /\ UNCHANGED << normal_log, p1_choices, p2_choices >>
              ELSE /\ pc' = "loop"
                   /\ normal_log' = result.stdout
                   /\ p1_choices' = choices.p1
                   /\ p2_choices' = choices.p2
                   /\ normal_state_file' =
                          IF result.writes_state THEN result.state ELSE normal_state_file
                   /\ UNCHANGED << work_dir, snapshot_file, stopgo_state_file,
                                   exit_code, exception >>
    /\ UNCHANGED << inputs, replay_num, rng_seed, stop_points, seg, accumulated_log,
                    all_success, cmd, results, segment_logs >>

\* an assignment in the place of "accumulated_log += result.stdout"
AccumulatedLastOnly(accumulated, stdout) == stdout

\* accumulated_log += result.stdout
Accumulated(accumulated, stdout) == accumulated \o stdout

\* what subprocess.run returned for segment i of replay r
SegmentLog(r, i, result) ==
    [r |-> r, i |-> i, returncode |-> result.returncode, stdout |-> result.stdout]

\* "if result.returncode != 0" of run_stop_and_go_game
SegmentFailed(result) == result.returncode # 0

\* a resume that does not look for the snapshot file
SnapshotNeverMissing(snap) == FALSE

\* "if not snapshot_file.exists()" before a resume segment
SnapshotMissing(snap) == ~snap.exists

\* "if not stopgo_log" of run_test_for_deck
StopgoFailed(stopgo_log) == stopgo_log = <<>>

\* "if normal_state_file.exists() and stopgo_state_file.exists()"
GamestateCompared(normal_file, stopgo_file) == normal_file.exists /\ stopgo_file.exists

\* gamestate_success: True unless the comparison ran and failed
GamestateSuccess(normal_file, stopgo_file) ==
    IF GamestateCompared(normal_file, stopgo_file)
    THEN compare_gamestates(normal_file.doc, stopgo_file.doc)
    ELSE TRUE

\* replay_success = log_success and gamestate_success
ReplaySuccess(log_success, gamestate_success) == log_success /\ gamestate_success

\* main: sys.exit(0) if passed else sys.exit(1)
MainExitCode(passed) == IF passed THEN 0 ELSE 1

\* the record of a replay whose segmented run failed ("all_success = False; continue")
FailedReplay(r) ==
    [ r |-> r, kind |-> "driver_failure", log_compared |-> FALSE, state_compared |-> FALSE,
      log_success |-> FALSE, gamestate_match |-> FALSE, replay_success |-> FALSE,
      reported |-> {"segment"}, written |-> {} ]

\* the two files compare_game_logs_via_tool writes the filtered actions to, as
\* <<directory, name>>: in log_dir when logs are kept, else at tempfile.mktemp
\* names, which lie in the temporary directory of the system, not in work_dir
LogPaths(save_logs) ==
    IF save_logs
    THEN { <<"log_dir", "_normal.log">>, <<"log_dir", "_stopgo.log">> }
    ELSE { <<"tempdir", "_normal.log">>, <<"tempdir", "_stopgo.log">> }

\* the record of a replay whose transcript went through the comparisons; `reported`
\* holds the failures the two tools print for the replay (Logs differ, GameStates
\* differ), which the command passes on in every mode; `written` the files the log
\* comparison wrote, a trial without artifact retention passing save_logs=False
ComparedReplay(r, stopgo_log, stopgo_file) ==
    LET log_success == compare_game_logs_via_tool(normal_log, stopgo_log)
        gamestate_success == GamestateSuccess(normal_state_file, stopgo_file)
    IN  [ r |-> r, kind |-> "compared", log_compared |-> TRUE,
          state_compared |-> GamestateCompared(normal_state_file, stopgo_file),
          log_success |-> log_success,
          gamestate_match |-> /\ GamestateCompared(normal_state_file, stopgo_file)
                              /\ gamestate_success,
          replay_success |-> ReplaySuccess(log_success, gamestate_success),
          reported |-> (IF log_success THEN {} ELSE {"log"})
                       \cup (IF gamestate_success THEN {} ELSE {"state"}),
          written |-> LogPaths(FALSE) ]

\* a count of the first player's choices only
TotalChoicesFirstPlayer(p1, p2) == Len(p1)

\* total_choices = len(all_player_choices), the choices of both players
TotalChoices(p1, p2) == Len(p1) + Len(p2)

\* the loop head of run_test_for_deck with a replay left: seed the generator, plan
\* the stops and start the first segment (or the fallback run without choices)
ReplayStart ==
    /\ pc = "loop"
    /\ replay_num < num_replays
    /\ rng_seed' = seed + replay_num + SeedOffset
    /\ LET total_choices == TotalChoices(p1_choices, p2_choices)
       IN  IF total_choices = 0
           THEN /\ pc' = "fallback_run"
                /\ cmd' = FallbackCmd(replay_num)
                /\ stop_points' = <<>>
           ELSE /\ pc' = "segment_run"
                /\ \E plan \in StopPlans(total_choices, NumStops) :
                       /\ stop_points' = plan
                       /\ cmd' = SegmentCmd(replay_num, 0, plan[1], snapshot_file)
    /\ seg' = 0
    /\ accumulated_log' = <<>>
    /\ segment_logs' = <<>>
    /\ running' = running \cup {cmd'}
    /\ trace' = Append(trace, Event("start", replay_num + 1, 0, 0))
    /\ UNCHANGED << inputs, work_dir, snapshot_file, normal_state_file,
                    stopgo_state_file, normal_log, p1_choices, p2_choices, replay_num,
                    all_success, exit_code, exception, faults, results >>

\* the loop of run_test_for_deck is over: return all_success, clean up, exit
TrialReturn ==
    /\ pc = "loop"
    /\ replay_num >= num_replays
    /\ Exit(MainExitCode(all_success), "none")
    /\ UNCHANGED << inputs, normal_log, p1_choices, p2_choices, replay_num, rng_seed,
                    stop_points, seg, accumulated_log, all_success, cmd, running,
                    trace, faults, results, segment_logs >>

\* the fallback run returns: run_stop_and_go_game returns result.stdout, one string,
\* without looking at the exit code; run_test_for_deck unpacks two values from it,
\* which raises ValueError (a transcript of exactly two characters would unpack; the
\* engine prints whole lines and no transcript is that short)
FallbackExit(b) ==
    /\ pc = "fallback_run"
    /\ Possible(D, cmd, b)
    /\ faults + Fault(b) <= MaxFaults
    /\ faults' = faults + Fault(b)
    /\ \E result \in {EngineRun(D, cmd, b)} :
           /\ running' = running \ {cmd}
           /\ trace' = Append(trace, Ended(result, replay_num + 1, 0))
           /\ Exit(1, IF TimeoutExpired(result) THEN "TimeoutExpired" ELSE "ValueError")
    /\ UNCHANGED << inputs, normal_log, p1_choices, p2_choices, replay_num, rng_seed,
                    stop_points, seg, accumulated_log, all_success, cmd, results,
                    segment_logs >>

\* a segment's process returns: the rest of the loop body of run_stop_and_go_game,
\* then either the next segment is started or the run returns to run_test_for_deck,
\* which compares and goes to its loop head
SegmentExit(b) ==
    /\ pc = "segment_run"
    /\ Possible(D, cmd, b)
    /\ faults + Fault(b) <= MaxFaults
    /\ faults' = faults + Fault(b)
    /\ \E result \in {EngineRun(D, cmd, b)} :
       LET snap_after == IF result.writes_snapshot THEN result.snapshot ELSE snapshot_file
           state_after == IF result.writes_state
                          THEN [stopgo_state_file EXCEPT ![replay_num] = result.state]
                          ELSE stopgo_state_file
           log == Accumulated(accumulated_log, result.stdout)
           plan == SegmentPlan(stop_points)
           exited == Ended(result, replay_num + 1, seg)
           checked == Event("check", replay_num + 1, seg + 1, IF snap_after.exists THEN 1 ELSE 0)
           next == SegmentCmd(replay_num, seg + 1, plan[seg + 2], snap_after)
       IN  IF TimeoutExpired(result)
           THEN /\ Exit(1, "TimeoutExpired")
                /\ running' = running \ {cmd}
                /\ trace' = Append(trace, exited)
                /\ UNCHANGED << replay_num, seg, accumulated_log, all_success, cmd, results >>
           ELSE IF SegmentFailed(result)
           THEN \* return "", saved_snapshots
                /\ pc' = "loop"
                /\ all_success' = FALSE
                /\ results' = Append(results, FailedReplay(replay_num))
                /\ replay_num' = replay_num + 1
                /\ snapshot_file' = snap_after
                /\ stopgo_state_file' = state_after
                /\ running' = running \ {cmd}
                /\ trace' = Append(trace, exited)
                /\ UNCHANGED << work_dir, normal_state_file, seg, accumulated_log, cmd,
                                exit_code, exception >>
           ELSE IF GameEnded(result.stdout) \/ seg + 1 = Len(plan)
           THEN \* the loop ends: unlink the snapshot, return accumulated_log
                /\ pc' = "loop"
                /\ accumulated_log' = log
                /\ snapshot_file' = NoSnapshot
                /\ stopgo_state_file' = state_after
                /\ IF StopgoFailed(log)
                   THEN /\ all_success' = FALSE
                        /\ results' = Append(results, FailedReplay(replay_num))
                   ELSE \E rec \in {ComparedReplay(replay_num, log, state_after[replay_num])} :
                            /\ all_success' = (all_success /\ rec.replay_success)
                            /\ results' = Append(results, rec)
                /\ replay_num' = replay_num + 1
                /\ running' = running \ {cmd}
                /\ trace' = Append(trace, exited)
                /\ UNCHANGED << work_dir, normal_state_file, seg, cmd, exit_code, exception >>
           ELSE IF SnapshotMissing(snap_after)
           THEN \* return "": one string where two values are unpacked, ValueError
                /\ Exit(1, "ValueError")
                /\ accumulated_log' = log
                /\ running' = running \ {cmd}
                /\ trace' = trace \o <<exited, checked>>
                /\ UNCHANGED << replay_num, seg, all_success, cmd, results >>
           ELSE \* the next segment resumes from the snapshot
                /\ pc' = "segment_run"
                /\ accumulated_log' = log
                /\ seg' = seg + 1
                /\ cmd' = next
                /\ snapshot_file' = snap_after
                /\ stopgo_state_file' = state_after
                /\ running' = (running \ {cmd}) \cup {next}
                /\ trace' = trace \o <<exited, checked, Event("start", replay_num + 1, seg + 1, 0)>>
                /\ UNCHANGED << work_dir, normal_state_file, replay_num, all_success,
                                exit_code, exception, results >>
    /\ segment_logs' =
           LET result == EngineRun(D, cmd, b)
           IN  IF TimeoutExpired(result) THEN segment_logs
               ELSE Append(segment_logs, SegmentLog(replay_num, seg, result))
    /\ UNCHANGED << inputs, normal_log, p1_choices, p2_choices, rng_seed, stop_points >>

Next ==
    \/ Main
    \/ \E b \in Behaviours : NormalGameExit(b)
    \/ ReplayStart
    \/ TrialReturn
    \/ \E b \in Behaviours : FallbackExit(b)
    \/ \E b \in Behaviours : SegmentExit(b)

Spec == Init /\ [][Next]_vars

\* ------------------------------------------------- properties of a trial
\* the engine processes of the trace that ended badly
NonZeroExit(ev) == ev.e = "exit" /\ ev.v # 0
TimedOut(ev) == ev.e = "timeout"
MissingSnapshot(ev) == ev.e = "check" /\ ev.v = 0
Started(ev) == ev.e = "start"

\* the record of replay r (0-based) when it has one
Recorded(r) == { n \in 1..Len(results) : results[n].r = r }

\* the replay was compared and both comparisons reported a match
BothMatched(rec) ==
    /\ rec.kind = "compared"
    /\ rec.log_compared /\ rec.log_success
    /\ rec.state_compared /\ rec.gamestate_match

\* C1: segmentation invariance.  With at least one decision extracted and an engine
\* that behaves (deterministic, resuming exactly from the snapshot it wrote), whatever
\* plan the planner drew, every replay that ended was compared, its filtered actions
\* and its canonical final state equal those of the continuous run, and it is
\* reported as passed; no exception ends the trial.
C1_SegmentationInvariance ==
    (faults = 0 /\ Len(p1_choices) + Len(p2_choices) >= 1) =>
        /\ exception = "none"
        /\ \A n \in 1..Len(results) : BothMatched(results[n]) /\ results[n].replay_success
        /\ (pc = "loop" /\ replay_num >= 1) =>
               /\ filter_game_actions(accumulated_log) = filter_game_actions(normal_log)
               /\ compare_gamestates(normal_state_file.doc,
                                     stopgo_state_file[replay_num - 1].doc)
        /\ pc = "done" => (exit_code = 0 /\ Len(results) = num_replays)

\* a trial of two replays without a fault whose last plan has a stop of two decisions
C1_Witness ==
    /\ faults = 0
    /\ pc = "done"
    /\ Len(results) = 2
    /\ Len(stop_points) = NumStops
    /\ \E n \in 1..Len(stop_points) : stop_points[n] = 2
    /\ results[2].replay_success

\* C2: a replay is counted as passed only if the log comparison reported a match and
\* the state comparison was performed and reported a match.
C2_PassedOnlyIfBothChecked ==
    \A n \in 1..Len(results) : results[n].replay_success => BothMatched(results[n])

\* C3: once the engine has been invoked, the command exits with code 0 exactly when
\* every requested replay completed and matched in filtered actions and in canonical
\* state, and with code 1 otherwise.
C3_ExitCodeIffAllMatched ==
    (pc = "done" /\ trace # <<>>) =>
        /\ exit_code \in {0, 1}
        /\ exit_code = 0 <=>
               /\ \E p \in 1..Len(trace) : trace[p] = Event("exit", 0, 0, 0)
               /\ Len(results) = num_replays
               /\ \A n \in 1..Len(results) : BothMatched(results[n])

\* C7: in a segmented run (at least one decision extracted), when a segment exits
\* with a non-zero code, or the snapshot is missing when a resume segment is about to
\* start, no further segment of that replay is invoked, the replay is not compared,
\* and it is recorded as a failure.
C7_SegmentFailureRecorded ==
    \A p \in 1..Len(trace) :
        (/\ Len(p1_choices) + Len(p2_choices) >= 1
         /\ trace[p].r >= 1
         /\ NonZeroExit(trace[p]) \/ MissingSnapshot(trace[p])) =>
            /\ \A q \in (p + 1)..Len(trace) : ~(Started(trace[q]) /\ trace[q].r = trace[p].r)
            /\ \E n \in Recorded(trace[p].r - 1) :
                   /\ results[n].kind = "driver_failure"
                   /\ ~results[n].log_compared
                   /\ ~results[n].state_compared
                   /\ ~results[n].replay_success

C10_StrictlySequential ==
    /\ Cardinality(running) <= 1
    /\ \A p \in 1..Len(trace) :
           (Started(trace[p]) /\ trace[p].i > 0) =>
               /\ p >= 3
               /\ trace[p - 1] = Event("check", trace[p].r, trace[p].i, 1)
               /\ trace[p - 2] = Event("exit", trace[p].r, trace[p].i - 1, 0)
    /\ \A p \in 1..(Len(trace) - 1) :
           Started(trace[p]) =>
               /\ trace[p + 1].e \in {"exit", "timeout"}
               /\ trace[p + 1].r = trace[p].r /\ trace[p + 1].i = trace[p].i

\* the third segment of a replay is running
C10_Witness ==
    /\ pc = "segment_run"
    /\ Cardinality(running) = 1
    /\ \E p \in 1..Len(trace) : Started(trace[p]) /\ trace[p].i = 2

\* C11: every resume segment consumes a snapshot written by the immediately preceding
\* segment of the same run, never one left behind by an earlier segment, an earlier
\* replay or an earlier run.  While a resume segment runs, the snapshot file holds
\* what the segment was started from.
C11_ResumesFromPrecedingSegment ==
    (pc = "segment_run" /\ cmd.resume) =>
        /\ snapshot_file.exists
        /\ snapshot_file.r = cmd.run
        /\ snapshot_file.i = cmd.seg - 1

\* C12: when run_stop_and_go_game has returned (the trial is at its loop head), whether
\* the run completed, the game ended or a segment exited with a non-zero code, the
\* snapshot file does not exist.
C12_NoSnapshotAfterRun ==
    pc = "loop" => ~snapshot_file.exists

\* C13: whenever run_test_for_deck is left, by return with any verdict, by the failure
\* exit of the continuous run, or by a timeout or another exception, the working
\* directory and every file in it are gone.
C13_WorkDirRemoved ==
    pc = "done" =>
        /\ ~work_dir
        /\ ~snapshot_file.exists
        /\ ~normal_state_file.exists
        /\ \A r \in DOMAIN stopgo_state_file : ~stopgo_state_file[r].exists

\* the trial was ended by a timeout of a later replay, after a replay had been compared
\* with both state files written
C13_Witness ==
    /\ pc = "done"
    /\ exception = "TimeoutExpired"
    /\ ~work_dir
    /\ \E n \in 1..Len(results) : results[n].state_compared

\* C19: when no decision was extracted from the continuous run, the segmented run is
\* one engine invocation without stop or snapshot flags, and once it has exited with
\* code 0 its transcript is compared and the replay gets a verdict.
C19_FallbackCompared ==
    \A p \in 1..Len(trace) :
        (/\ Len(p1_choices) + Len(p2_choices) = 0
         /\ trace[p].r >= 1
         /\ trace[p].e = "exit" /\ trace[p].v = 0) =>
            /\ trace[p].i = 0
            /\ ~cmd.snapshot_output /\ cmd.stop_after = 0
            /\ \E n \in Recorded(trace[p].r - 1) : results[n].log_compared

\* C20: no engine invocation is retried.  The continuous run is invoked once, no
\* segment of a replay is invoked twice or beyond the plan, and a timeout is the last
\* event of the trial, which ends with exit code 1.
C20_NoRetry ==
    LET starts == { p \in 1..Len(trace) : Started(trace[p]) }
    IN  /\ Cardinality({ <<trace[p].r, trace[p].i>> : p \in starts }) = Cardinality(starts)
        /\ trace # <<>> => trace[1] = Event("start", 0, 0, 0)
        /\ pc = "segment_run" => seg < Len(SegmentPlan(stop_points))
        /\ \A p \in 1..Len(trace) :
               TimedOut(trace[p]) =>
                   /\ p = Len(trace)
                   /\ running = {}
                   /\ pc = "done" /\ exit_code = 1
                   /\ \A n \in 1..Len(results) : results[n].r # trace[p].r - 1

\* a resume segment of the second replay timed out
C20_Witness ==
    /\ pc = "done"
    /\ trace # <<>>
    /\ TimedOut(trace[Len(trace)])
    /\ trace[Len(trace)].r = 2 /\ trace[Len(trace)].i >= 1

\* C22: the first segment of every segmented run is started with the fixed-decision
\* replay strategy for each player, given exactly the decisions extracted for that
\* player from the continuous run, in the same order.
C22_FirstSegmentReplaysDecisions ==
    (pc = "segment_run" /\ cmd.run >= 1 /\ cmd.seg = 0) =>
        /\ cmd.controllers = "fixed"
        /\ cmd.fixed_inputs = <<p1_choices, p2_choices>>

C24_BothComparisonsReported ==
    \A n \in 1..Len(results) :
        results[n].log_compared =>
            /\ results[n].state_compared
            /\ (~results[n].log_success /\ ~results[n].gamestate_match) =>
                  {"log", "state"} \subseteq results[n].reported

\* the segment processes of replay r that returned, in the order they returned
SegmentsOf(r) == SelectSeq(segment_logs, LAMBDA sl : sl.r = r)

\* the transcripts of the given segments, one after the other
RECURSIVE Concatenated(_)
Concatenated(segs) ==
    IF segs = <<>> THEN <<>> ELSE Head(segs).stdout \o Concatenated(Tail(segs))

\* the segments of replay r that were invoked
InvokedSegments(r) == { trace[n].i : n \in { m \in 1..Len(trace) : Started(trace[m]) /\ trace[m].r = r + 1 } }

\* replay r has just been handed to the comparison: accumulated_log is the
\* transcript run_stop_and_go_game returned for it
JustCompared(r) ==
    /\ pc = "loop" /\ replay_num = r + 1
    /\ results # <<>>
    /\ results[Len(results)].r = r /\ results[Len(results)].kind = "compared"

\* C33: the transcript handed to filtering for a segmented run is the
\* concatenation of the segment transcripts in segment index order, with the
\* output of every invoked segment exactly once, up to and including the segment
\* at which the run ended.
C33_TranscriptIsConcatenation ==
    \A r \in 0..(MaxReplays - 1) :
        JustCompared(r) =>
            LET segs == SegmentsOf(r)
            IN  /\ accumulated_log = Concatenated(segs)
                /\ \A n \in 1..Len(segs) : segs[n].i = n - 1 /\ segs[n].returncode = 0
                /\ InvokedSegments(r) = { n - 1 : n \in 1..Len(segs) }

\* a replay of three segments, each with lines of its own, handed to the comparison
C33_Witness ==
    \E r \in 0..(MaxReplays - 1) :
        /\ JustCompared(r)
        /\ Len(SegmentsOf(r)) = 3
        /\ \A n \in 1..3 : SegmentsOf(r)[n].stdout # <<>>
        /\ SegmentsOf(r)[1].stdout # SegmentsOf(r)[2].stdout

\* C34: a trial without artifact retention creates, modifies or leaves no file
\* outside its own temporary working directory, on any exit path: every file a
\* replay wrote lies in work_dir, and no file of the trial is left when it is done.
C34_NoFileOutsideWorkDir ==
    /\ \A n \in 1..Len(results) : \A path \in results[n].written : path[1] = "work_dir"
    /\ pc = "done" =>
           /\ ~snapshot_file.exists /\ ~normal_state_file.exists
           /\ \A r \in 0..(MaxReplays - 1) : ~stopgo_state_file[r].exists

\* a line of the transcript holds one of the two game-over markers
HasGameOverMarker(stdout) ==
    \E n \in 1..Len(stdout) : \E k \in 1..Len(stdout[n]) :
        stdout[n][k] = "Game Over" \/ stdout[n][k] = "wins!"

\* C38: when the transcript of a segment that exited with code 0 holds a
\* game-over marker, no later segment of the plan is invoked and the run returns
\* the transcript accumulated so far, planned segments remaining or not.
C38_GameOverEndsRun ==
    \A n \in 1..Len(segment_logs) :
        LET sl == segment_logs[n]
        IN  (sl.returncode = 0 /\ HasGameOverMarker(sl.stdout)) =>
                /\ \A i \in InvokedSegments(sl.r) : i <= sl.i
                /\ n = Len(segment_logs) \/ segment_logs[n + 1].r # sl.r
                /\ (sl.r = replay_num - 1 /\ pc = "loop") =>
                       accumulated_log = Concatenated(SegmentsOf(sl.r))

\* the game ends in the first of three planned segments and the run returns
C38_Witness ==
    /\ pc = "loop" /\ replay_num >= 1
    /\ Len(stop_points) >= 2
    /\ LET segs == SegmentsOf(replay_num - 1)
       IN  /\ Len(segs) = 1
           /\ segs[1].returncode = 0
           /\ HasGameOverMarker(segs[1].stdout)
           /\ accumulated_log = segs[1].stdout

\* ------------------------------------------- two executions of the planner
\* The generator of Python's random module is deterministic: its state is fixed by how
\* it was seeded and by the draws made since.  random.seed(n) sets it from n; without
\* a call of random.seed it was seeded from operating system entropy when the module
\* was imported.  The single-scenario command seeds it before every replay; the batch
\* command never does.
SeededRng(n) == [src |-> "seed", n |-> n, drawn |-> <<>>]
EntropyRng(e) == [src |-> "entropy", n |-> e, drawn |-> <<>>]

\* the generator at the start of the stop planning of `command`
PlanningRng(command, entropy, game_seed, replay) ==
    IF command = "single" THEN SeededRng(game_seed + replay + SeedOffset)
    ELSE EntropyRng(entropy)

Executions == {"A", "B"}
LongTotal == 12
MaxStopsRequested == 5
EntropyValues == {1, 2}

PlanExecution(entropy) ==
    [ phase |-> "start", rng |-> EntropyRng(entropy), i |-> 0, cumulative |-> 0,
      stop_points |-> <<>> ]

InitPlan ==
    /\ TrialStart
    /\ cardsfolder = FALSE /\ deck_exists = FALSE /\ bin_exists = FALSE
    /\ D = 0 /\ num_replays = 0
    /\ cl = ClIdle
    /\ dl = Idle
    /\ gs = Idle
    /\ ct = Idle
    /\ ex = Idle
    /\ bt = Idle
    /\ fl = Idle
    /\ dt = Idle
    /\ \/ \E command \in {"single", "batch"}, total \in 1..MaxTotal,
             num_stops \in 0..MaxStopsRequested, replay \in 0..(MaxReplays - 1),
             ea \in EntropyValues, eb \in EntropyValues :
             pl = [ command |-> command, total |-> total, num_stops |-> num_stops,
                    replay |-> replay, A |-> PlanExecution(ea), B |-> PlanExecution(eb),
                    memo |-> {} ]
       \* a longer game, planned by the single-scenario command with its five stops
       \/ pl = [ command |-> "single", total |-> LongTotal, num_stops |-> NumStops,
                 replay |-> 0, A |-> PlanExecution(1), B |-> PlanExecution(1),
                 memo |-> {} ]

\* execution x reaches the stop planning: random.seed in the single-scenario command
PlanSeed(x) ==
    /\ pl.command # "none"
    /\ pl[x].phase = "start"
    /\ x = "B" => pl.A.phase = "done"
    /\ pl' = [pl EXCEPT ![x].phase = "loop",
                        ![x].rng = PlanningRng(pl.command, pl[x].rng.n, seed, pl.replay)]
    /\ UNCHANGED << trial, cl, dl, gs, ct, ex, bt, fl, dt >>

\* one iteration of the planning loop of execution x, or its end
PlanStep(x) ==
    /\ pl.command # "none"
    /\ pl[x].phase = "loop"
    /\ LET e == pl[x]
           actual == actual_num_stops(pl.total, pl.num_stops)
           cps == choices_per_stop(pl.total, actual)
           hi == DrawHi(cps, Remaining(pl.total, actual, e.i, e.cumulative))
       IN  IF LoopContinues(pl.total, actual, e.i, e.cumulative)
           THEN \E advance \in 1..hi :
                    \* equal generator states give equal draws
                    /\ \A m \in pl.memo : (m.rng = e.rng /\ m.hi = hi) => m.advance = advance
                    /\ LET after == AfterAdvance(e.cumulative, e.stop_points, advance)
                       IN  pl' = [pl EXCEPT
                                    ![x].i = e.i + 1,
                                    ![x].cumulative = after.cumulative,
                                    ![x].stop_points = after.stop_points,
                                    ![x].rng.drawn = Append(e.rng.drawn, <<hi, advance>>),
                                    !.memo = pl.memo \cup
                                             {[rng |-> e.rng, hi |-> hi, advance |-> advance]}]
           ELSE pl' = [pl EXCEPT ![x].phase = "done",
                                 ![x].stop_points = AtLeastOneStop(e.stop_points)]
    /\ UNCHANGED << trial, cl, dl, gs, ct, ex, bt, fl, dt >>

NextPlan == \E x \in Executions : PlanSeed(x) \/ PlanStep(x)

SpecPlan == InitPlan /\ [][NextPlan]_vars

\* ------------------------------------------------ properties of the planner
\* the cumulative boundary after the n-th stop
Boundary(points, n) == SumSeq(SubSeq(points, 1, n))

PlansDone == { x \in Executions : pl.command # "none" /\ pl[x].phase = "done" }

\* C4: plan validity.  For every total of at least one decision and any requested
\* stop count, the cumulative boundaries of the plan are strictly increasing and never
\* exceed the total, the non-terminal lengths are positive and sum to at most the
\* total, and the plan has exactly one terminal (length 0) segment, placed last.
C4_PlanValidity ==
    \A x \in PlansDone :
        LET points == pl[x].stop_points
            plan == SegmentPlan(points)
        IN  /\ \A n \in 1..Len(points) : points[n] >= 1
            /\ \A n \in 1..Len(points) : Boundary(points, n) <= pl.total
            /\ \A n \in 2..Len(points) : Boundary(points, n - 1) < Boundary(points, n)
            /\ SumSeq(points) <= pl.total
            /\ Cardinality({ n \in 1..Len(plan) : plan[n] = 0 }) = 1
            /\ plan[Len(plan)] = 0

\* a finished plan of five stops, one of them two decisions long
C4_Witness ==
    \E x \in PlansDone :
        /\ Len(pl[x].stop_points) = 5
        /\ \E n \in 1..5 : pl[x].stop_points[n] = 2

\* C5 as stated: for every total of at least one decision the non-terminal lengths
\* sum to strictly less than the total.
C5_SumBelowTotal ==
    \A x \in PlansDone : SumSeq(pl[x].stop_points) < pl.total

\* C5: for every total of at least two decisions the non-terminal lengths are positive
\* and sum to strictly less than the total, so at least one decision remains for the
\* terminal segment; for a total of one decision the plan is the single stop [1],
\* which leaves none.
C5_SumBelowTotalFromTwo ==
    \A x \in PlansDone :
        /\ pl.total >= 2 =>
               /\ SumSeq(pl[x].stop_points) < pl.total
               /\ \A n \in 1..Len(pl[x].stop_points) : pl[x].stop_points[n] >= 1
        /\ pl.total = 1 => pl[x].stop_points = <<1>>

\* a finished plan that leaves exactly one decision for the terminal segment, after
\* a stop of two decisions
C5_Witness ==
    \E x \in PlansDone :
        /\ pl.total = MaxTotal
        /\ SumSeq(pl[x].stop_points) = pl.total - 1
        /\ pl[x].stop_points[1] = 2

\* C35: for a total of at least two decisions and at least one requested stop
\* the plan has exactly min(requested, total - 1) non-terminal segments, each of a
\* length between 1 and 2 x decisionsPerStop, where decisionsPerStop is
\* max(1, total div (effectiveStops + 1)); in particular 12 decisions and 5
\* requested stops give 5 positive non-terminal segments that sum to less than 12,
\* and the terminal segment.
C35_StopCountAndLengths ==
    \A x \in PlansDone :
        (pl.total >= 2 /\ pl.num_stops >= 1) =>
            LET points == pl[x].stop_points
                effective == IF pl.num_stops <= pl.total - 1 THEN pl.num_stops ELSE pl.total - 1
                share == pl.total \div (effective + 1)
                per_stop == IF share >= 1 THEN share ELSE 1
            IN  /\ Len(points) = effective
                /\ \A n \in 1..Len(points) : 1 <= points[n] /\ points[n] <= 2 * per_stop
                /\ (pl.total = 12 /\ pl.num_stops = 5) =>
                       /\ Len(points) = 5
                       /\ SumSeq(points) < 12
                       /\ SegmentPlan(points)[6] = 0

\* a finished plan for 12 decisions and 5 requested stops with a stop of four
\* decisions, twice the two decisions per stop
C35_Witness ==
    \E x \in PlansDone :
        /\ pl.total = 12 /\ pl.num_stops = 5
        /\ Len(pl[x].stop_points) = 5
        /\ \E n \in 1..5 : pl[x].stop_points[n] = 4

\* C6: two executions with the same game seed, replay index and total decision count
\* produce the same stop points, in the single-scenario command and in the batch
\* command alike.
C6_PlansReproducible ==
    (pl.command # "none" /\ pl.A.phase = "done" /\ pl.B.phase = "done") =>
        pl.A.stop_points = pl.B.stop_points

\* --------------------------------------------- one run of the log comparison
\* lines a transcript may hold: two actions, a snapshot notice, a blank line and an
\* action with a carriage return inside
TranscriptLines ==
    { <<"Alice", "plays ", "card">>, <<"Bob", "draws ", "card">>,
      <<"Snapshot", " saved">>, <<" ">>, <<"Turn ", "CR", "1">> }

RECURSIVE SeqsUpTo(_, _)
SeqsUpTo(S, n) ==
    IF n = 0 THEN {<<>>}
    ELSE SeqsUpTo(S, n - 1) \cup
         { Append(q, x) : q \in { t \in SeqsUpTo(S, n - 1) : Len(t) = n - 1 }, x \in S }

InitCompare ==
    /\ TrialStart
    /\ cardsfolder = FALSE /\ deck_exists = FALSE /\ bin_exists = FALSE
    /\ D = 0 /\ num_replays = 0
    /\ pl = PlIdle
    /\ dl = Idle
    /\ gs = Idle
    /\ ct = Idle
    /\ ex = Idle
    /\ bt = Idle
    /\ fl = Idle
    /\ dt = Idle
    /\ \E a \in SeqsUpTo(TranscriptLines, MaxLen), b \in SeqsUpTo(TranscriptLines, MaxLen) :
          cl = [phase |-> "input", normal_log |-> a, stopgo_log |-> b, log_success |-> FALSE]

\* compare_game_logs_via_tool on the two transcripts
CompareLogs ==
    /\ cl.phase = "input"
    /\ cl' = [cl EXCEPT !.phase = "compared",
                        !.log_success = compare_game_logs_via_tool(cl.normal_log, cl.stopgo_log)]
    /\ UNCHANGED << trial, pl, dl, gs, ct, ex, bt, fl, dt >>

NextCompare == CompareLogs

SpecCompare == InitCompare /\ [][NextCompare]_vars

\* --------------------------------------------- properties of the comparison
\* C9: an empty filtered action sequence on either side makes the log comparison
\* fail; no match is reported when either sequence is empty, both empty included.
C9_EmptySideFails ==
    (/\ cl.phase = "compared"
     /\ \/ filter_game_actions(cl.normal_log) = <<>>
        \/ filter_game_actions(cl.stopgo_log) = <<>>) =>
        ~cl.log_success

\* two transcripts of one snapshot notice each were compared: both filtered sides empty
C9_Witness ==
    /\ cl.phase = "compared"
    /\ cl.normal_log = << <<"Snapshot", " saved">> >>
    /\ cl.stopgo_log = cl.normal_log
    /\ filter_game_actions(cl.normal_log) = <<>>
    /\ ~cl.log_success


\* ------------------------------------------------ one run of diff_logs.py
\* The tool is applied to two action files that share their first lines and then
\* go their own ways; the shared part is long enough to reach the cut-off of the
\* differences the tool shows.
MaxTail == 2

ActionLines == { <<"Alice", " plays ", "1">>, <<"Alice", " plays ", "2">> }
SharedLengths == {0, 1, ShownDifferences - 1, ShownDifferences}
Shared(n) == [p \in 1..n |-> <<"Turn ", "1">>]

InitDiff ==
    /\ TrialStart
    /\ cardsfolder = FALSE /\ deck_exists = FALSE /\ bin_exists = FALSE
    /\ D = 0 /\ num_replays = 0
    /\ pl = PlIdle
    /\ cl = ClIdle
    /\ gs = Idle
    /\ ct = Idle
    /\ ex = Idle
    /\ bt = Idle
    /\ fl = Idle
    /\ dt = Idle
    /\ \E n \in SharedLengths, a \in SeqsUpTo(ActionLines, MaxTail),
          b \in SeqsUpTo(ActionLines, MaxTail), verbose \in BOOLEAN :
          dl = [phase |-> "input", normal_actions |-> Shared(n) \o a,
                stopgo_actions |-> Shared(n) \o b, verbose |-> verbose,
                match |-> FALSE, output |-> <<>>, exit_code |-> NotExited]

\* main of diff_logs.py: compare, print the verdict, exit 0 exactly on a match
DiffLogs ==
    /\ dl.phase = "input"
    /\ \E match \in {compare_logs(dl.normal_actions, dl.stopgo_actions)} :
          dl' = [dl EXCEPT !.phase = "compared",
                           !.match = match,
                           !.output = compare_logs_output(dl.normal_actions, dl.stopgo_actions,
                                                          dl.verbose)
                                      \o << Printed(IF match THEN "logs_match" ELSE "logs_differ",
                                                    "both", 0, 0) >>,
                           !.exit_code = IF match THEN 0 ELSE 1]
    /\ UNCHANGED << trial, pl, cl, gs, ct, ex, bt, fl, dt >>

NextDiff == DiffLogs

SpecDiff == InitDiff /\ [][NextDiff]_vars

\* ----------------------------------------------- properties of diff_logs.py
\* the first position, counted from 0, where the two sequences differ; the length
\* of the shorter one when it is a prefix of the other
FirstDifference(normal_actions, stopgo_actions) ==
    LET shorter == Min(Len(normal_actions), Len(stopgo_actions))
        differing == { p \in 1..shorter : normal_actions[p] # stopgo_actions[p] }
    IN  IF differing = {} THEN shorter
        ELSE (CHOOSE p \in differing : \A q \in differing : p <= q) - 1

Differ ==
    /\ dl.phase = "compared"
    /\ Len(dl.normal_actions) > 0 /\ Len(dl.stopgo_actions) > 0
    /\ dl.normal_actions # dl.stopgo_actions

OfKind(output, kind) == SelectSeq(output, LAMBDA block : block.kind = kind)

\* the first index, counted from 0, that the output names as a place where the
\* sequences part: the first differing line if one is printed, else the first extra
\* action if the extra actions are printed, else none
FirstReported(output) ==
    IF OfKind(output, "differs") # <<>> THEN OfKind(output, "differs")[1].line - 1
    ELSE IF OfKind(output, "extra") # <<>> THEN OfKind(output, "extra")[1].line - 1
    ELSE -1

\* C15: compare_logs reports a match exactly when both action sequences are
\* non-empty, have the same length and are equal at every position; the tool exits
\* 0 exactly then.
C15_MatchIffEqual ==
    dl.phase = "compared" =>
        /\ dl.match <=>
              /\ Len(dl.normal_actions) > 0
              /\ Len(dl.stopgo_actions) > 0
              /\ Len(dl.normal_actions) = Len(dl.stopgo_actions)
              /\ \A p \in 1..Len(dl.normal_actions) : dl.normal_actions[p] = dl.stopgo_actions[p]
        /\ dl.exit_code = 0 <=> dl.match

C15_Witness ==
    /\ dl.phase = "compared"
    /\ dl.match
    /\ Len(dl.normal_actions) = ShownDifferences + MaxTail

MaxEdits == 2

Swap(kv, i) == [kv EXCEPT ![i] = kv[i + 1], ![i + 1] = kv[i]]
Without(kv, i) == SubSeq(kv, 1, i - 1) \o SubSeq(kv, i + 1, Len(kv))
WithValue(kv, i, w) == [kv EXCEPT ![i] = <<kv[i][1], w>>]

RECURSIVE IncidentalEdits(_)
IncidentalEdits(v) ==
    IF v.t = "obj"
    THEN LET metadata == { i \in 1..Len(v.kv) : v.kv[i][1] \in MetadataFields }
             EditedFields == {"choice_id", "undo_log"}
             IncidentalValues == { JNum(7), JArr(<< JObj(<< <<"choice_id", JNum(7)>> >>) >>) }
         IN  { JObj(Swap(v.kv, i)) : i \in 1..(Len(v.kv) - 1) }
             \cup { JObj(Append(v.kv, <<k, JNum(7)>>)) : k \in { f \in EditedFields : ~HasKey(v, f) } }
             \cup { JObj(Without(v.kv, i)) : i \in metadata }
             \cup { JObj(WithValue(v.kv, i, w)) : i \in metadata, w \in IncidentalValues }
             \cup UNION { { JObj(WithValue(v.kv, i, w)) : w \in IncidentalEdits(v.kv[i][2]) } :
                          i \in 1..Len(v.kv) }
    ELSE IF v.t = "arr"
         THEN UNION { { JArr([v.xs EXCEPT ![i] = w]) : w \in IncidentalEdits(v.xs[i]) } :
                      i \in 1..Len(v.xs) }
         ELSE {}

RECURSIVE SemanticEdits(_)
SemanticEdits(v) ==
    IF v.t = "obj"
    THEN LET seen == { i \in 1..Len(v.kv) : v.kv[i][1] \notin MetadataFields }
         IN  UNION { { JObj(WithValue(v.kv, i, w)) : w \in SemanticEdits(v.kv[i][2]) } :
                     i \in seen }
    ELSE IF v.t = "arr"
         THEN UNION { { JArr([v.xs EXCEPT ![i] = w]) : w \in SemanticEdits(v.xs[i]) } :
                      i \in 1..Len(v.xs) }
         ELSE { JNum(v.n + 1) }

\* what a resumed engine leaves different without any difference in the game:
\* the state of a controller, a counter scoped to the turn, the state of the logger
RECURSIVE ResumeEdits(_)
ResumeEdits(v) ==
    IF v.t = "obj"
    THEN { JObj(Append(v.kv, <<k, JNum(7)>>)) :
             k \in { f \in {"p1_controller_state", "lands_played_this_turn", "logger"} :
                        ~HasKey(v, f) } }
         \cup UNION { { JObj(WithValue(v.kv, i, w)) : w \in ResumeEdits(v.kv[i][2]) } :
                      i \in 1..Len(v.kv) }
    ELSE IF v.t = "arr"
         THEN UNION { { JArr([v.xs EXCEPT ![i] = w]) : w \in ResumeEdits(v.xs[i]) } :
                      i \in 1..Len(v.xs) }
         ELSE {}

\* two neighbouring elements of a sequence change places, at any depth
RECURSIVE Reorders(_)
Reorders(v) ==
    IF v.t = "obj"
    THEN UNION { { JObj(WithValue(v.kv, i, w)) : w \in Reorders(v.kv[i][2]) } :
                 i \in 1..Len(v.kv) }
    ELSE IF v.t = "arr"
         THEN { JArr(Swap(v.xs, i)) : i \in { j \in 1..(Len(v.xs) - 1) : v.xs[j] # v.xs[j + 1] } }
              \cup UNION { { JArr([v.xs EXCEPT ![i] = w]) : w \in Reorders(v.xs[i]) } :
                           i \in 1..Len(v.xs) }
         ELSE {}

\* the state file with its game_state replaced
WithGameState(doc, game_state) ==
    JObj(WithValue(doc.kv, CHOOSE i \in 1..Len(doc.kv) : doc.kv[i][1] = "game_state", game_state))

\* changes to the envelope of the state file: the order of its keys, the value,
\* the presence and the shape of the fields beside game_state
EnvelopeEdits(doc) ==
    LET siblings == { j \in 1..Len(doc.kv) : doc.kv[j][1] # "game_state" }
    IN  { JObj(Swap(doc.kv, i)) : i \in 1..(Len(doc.kv) - 1) }
        \cup { JObj(WithValue(doc.kv, i, JNum(doc.kv[i][2].n + 1))) : i \in siblings }
        \cup { JObj(Without(doc.kv, i)) : i \in siblings }
        \cup { JObj(Append(doc.kv, <<k, JNum(7)>>)) :
                 k \in { f \in {"turn", "choice_id"} : ~HasKey(doc, f) } }

InitStates ==
    /\ TrialStart
    /\ cardsfolder = FALSE /\ deck_exists = FALSE /\ bin_exists = FALSE
    /\ D = 0 /\ num_replays = 0
    /\ pl = PlIdle
    /\ cl = ClIdle
    /\ dl = Idle
    /\ ct = Idle
    /\ ex = Idle
    /\ bt = Idle
    /\ fl = Idle
    /\ dt = Idle
    /\ \E a \in 0..1, b \in 0..1 :
          gs = [phase |-> "captured", normal_state |-> FinalDoc(1, a, StartLife),
                stopgo_state |-> FinalDoc(1, b, StartLife),
                edits |-> 0, same_content |-> TRUE, kinds |-> {},
                visible_reorder |-> FALSE, match |-> FALSE]

Decorate ==
    /\ gs.phase = "captured" /\ gs.edits < MaxEdits
    /\ HasKey(gs.stopgo_state, "game_state")
    /\ \E w \in IncidentalEdits(DictGet(gs.stopgo_state, "game_state")) :
          gs' = [gs EXCEPT !.stopgo_state = WithGameState(gs.stopgo_state, w),
                           !.edits = gs.edits + 1,
                           !.kinds = gs.kinds \cup {"incidental"}]
    /\ UNCHANGED << trial, pl, cl, dl, ct, ex, bt, fl, dt >>

Restamp ==
    /\ gs.phase = "captured" /\ gs.edits < MaxEdits
    /\ \/ \E w \in EnvelopeEdits(gs.stopgo_state) :
             gs' = [gs EXCEPT !.stopgo_state = w, !.edits = gs.edits + 1,
                              !.kinds = gs.kinds \cup {"envelope"}]
       \/ \E w \in EnvelopeEdits(gs.normal_state) :
             gs' = [gs EXCEPT !.normal_state = w, !.edits = gs.edits + 1,
                              !.kinds = gs.kinds \cup {"envelope"}]
    /\ UNCHANGED << trial, pl, cl, dl, ct, ex, bt, fl, dt >>

Alter ==
    /\ gs.phase = "captured" /\ gs.edits < MaxEdits
    /\ HasKey(gs.stopgo_state, "game_state")
    /\ \E w \in SemanticEdits(DictGet(gs.stopgo_state, "game_state")) :
          gs' = [gs EXCEPT !.stopgo_state = WithGameState(gs.stopgo_state, w),
                           !.edits = gs.edits + 1,
                           !.kinds = gs.kinds \cup {"semantic"},
                           !.same_content = FALSE]
    /\ UNCHANGED << trial, pl, cl, dl, ct, ex, bt, fl, dt >>

Rewind ==
    /\ gs.phase = "captured" /\ gs.edits < MaxEdits
    /\ HasKey(gs.stopgo_state, "game_state")
    /\ \E w \in ResumeEdits(DictGet(gs.stopgo_state, "game_state")) :
          gs' = [gs EXCEPT !.stopgo_state = WithGameState(gs.stopgo_state, w),
                           !.edits = gs.edits + 1,
                           !.kinds = gs.kinds \cup {"resume"},
                           !.same_content = FALSE]
    /\ UNCHANGED << trial, pl, cl, dl, ct, ex, bt, fl, dt >>

\* one reordering per pair of captures; it is visible when the stripped game
\* states differ after it
Reorder ==
    /\ gs.phase = "captured" /\ gs.edits < MaxEdits /\ "reorder" \notin gs.kinds
    /\ HasKey(gs.stopgo_state, "game_state")
    /\ \E old \in {DictGet(gs.stopgo_state, "game_state")} :
       \E w \in Reorders(old) :
          gs' = [gs EXCEPT !.stopgo_state = WithGameState(gs.stopgo_state, w),
                           !.edits = gs.edits + 1,
                           !.kinds = gs.kinds \cup {"reorder"},
                           !.visible_reorder =
                               strip_metadata_fields(w) # strip_metadata_fields(old),
                           !.same_content = FALSE]
    /\ UNCHANGED << trial, pl, cl, dl, ct, ex, bt, fl, dt >>

\* a state file that is not a full capture: the game_state entry is missing, or
\* what it holds is metadata only
WithoutGameState(doc) ==
    JObj(SelectSeq(doc.kv, LAMBDA pair : pair[1] # "game_state"))

Hollowed(doc) == WithGameState(doc, JObj(<< <<"choice_id", JNum(7)>> >>))

Truncate ==
    /\ gs.phase = "captured" /\ gs.edits < MaxEdits
    /\ \/ /\ HasKey(gs.stopgo_state, "game_state")
          /\ \E w \in {WithoutGameState(gs.stopgo_state), Hollowed(gs.stopgo_state)} :
                gs' = [gs EXCEPT !.stopgo_state = w, !.edits = gs.edits + 1,
                                 !.kinds = gs.kinds \cup {"truncated"},
                                 !.same_content = FALSE]
       \/ /\ HasKey(gs.normal_state, "game_state")
          /\ \E w \in {WithoutGameState(gs.normal_state), Hollowed(gs.normal_state)} :
                gs' = [gs EXCEPT !.normal_state = w, !.edits = gs.edits + 1,
                                 !.kinds = gs.kinds \cup {"truncated"},
                                 !.same_content = FALSE]
    /\ UNCHANGED << trial, pl, cl, dl, ct, ex, bt, fl, dt >>

\* diff_gamestate.py on the two state files
CompareStates ==
    /\ gs.phase = "captured"
    /\ gs' = [gs EXCEPT !.phase = "compared",
                        !.match = compare_gamestates(gs.normal_state, gs.stopgo_state)]
    /\ UNCHANGED << trial, pl, cl, dl, ct, ex, bt, fl, dt >>

NextStates == Decorate \/ Restamp \/ Alter \/ Rewind \/ Reorder \/ Truncate \/ CompareStates

SpecStates == InitStates /\ [][NextStates]_vars

\* ------------------------------------------ properties of the state comparison
RECURSIVE HasField(_, _)
HasField(v, fields) ==
    IF v.t = "obj"
    THEN \E i \in 1..Len(v.kv) : v.kv[i][1] \in fields \/ HasField(v.kv[i][2], fields)
    ELSE IF v.t = "arr"
         THEN \E i \in 1..Len(v.xs) : HasField(v.xs[i], fields)
         ELSE FALSE

\* C17: two state captures whose game states differ only in the values or the
\* presence of metadata fields (at any depth, in mappings and in elements of
\* sequences) and in the order of the keys of mappings are reported as matching.
C17_IncidentalDifferencesMatch ==
    (gs.phase = "compared" /\ gs.same_content) => gs.match

C17_Witness ==
    /\ gs.phase = "compared" /\ gs.same_content /\ gs.match
    /\ gs.edits = MaxEdits
    /\ LET normal_gs == DictGet(gs.normal_state, "game_state")
           stopgo_gs == DictGet(gs.stopgo_state, "game_state")
       IN  /\ json_dumps_sorted(normal_gs) # json_dumps_sorted(stopgo_gs)
           /\ strip_metadata_fields(normal_gs) # strip_metadata_fields(stopgo_gs)
           /\ HasField(DictGet(stopgo_gs, "players"), MetadataFields)

\* C18: stripping the metadata fields of an already stripped structure returns it
\* unchanged, and a stripped structure holds no metadata field at any depth; for
\* both tools that strip.
C18_StripIdempotent ==
    gs.phase # "none" =>
        \A x \in {gs.normal_state, gs.stopgo_state} :
            /\ strip_metadata_fields(strip_metadata_fields(x)) = strip_metadata_fields(x)
            /\ ~HasField(strip_metadata_fields(x), MetadataFields)
            /\ strip_metadata(strip_metadata(x)) = strip_metadata(x)
            /\ ~HasField(strip_metadata(x), SnapshotMetadataFields)

C18_Witness ==
    /\ gs.phase = "captured" /\ gs.edits = MaxEdits
    /\ HasField(DictGet(DictGet(gs.stopgo_state, "game_state"), "players"), MetadataFields)
    /\ HasField(gs.stopgo_state, {"logger"})
    /\ strip_metadata_fields(gs.stopgo_state) # gs.stopgo_state
    /\ strip_metadata(gs.stopgo_state) # strip_metadata_fields(gs.stopgo_state)


\* C25, as stated: the canonicalizer of the final-state comparison removes, at
\* every depth, the fields of every incidental category (choice counters, undo and
\* replay logs, presentation settings, transient flags, controller state, counters
\* scoped to the turn), so two final-state captures that differ only in such fields
\* are reported as matching.
C25_AllCategoriesStripped ==
    gs.phase = "compared" =>
        /\ \A x \in {gs.normal_state, gs.stopgo_state} :
              ~HasField(strip_metadata_fields(DictGet(x, "game_state")), SnapshotMetadataFields)
        /\ gs.kinds \subseteq {"incidental", "envelope", "resume"} => gs.match

\* the stripped value keeps every sequence of the raw value that is not under a
\* metadata field, element for element and in the same order
RECURSIVE KeepsSequences(_, _)
KeepsSequences(raw, stripped) ==
    IF raw.t = "arr"
    THEN /\ stripped.t = "arr" /\ Len(stripped.xs) = Len(raw.xs)
         /\ \A i \in 1..Len(raw.xs) :
               /\ stripped.xs[i] = strip_metadata_fields(raw.xs[i])
               /\ KeepsSequences(raw.xs[i], stripped.xs[i])
    ELSE IF raw.t = "obj"
         THEN \A i \in 1..Len(raw.kv) :
                 raw.kv[i][1] \notin MetadataFields =>
                    /\ HasKey(stripped, raw.kv[i][1])
                    /\ KeepsSequences(raw.kv[i][2], DictGet(stripped, raw.kv[i][1]))
         ELSE stripped = raw

\* the second capture is the first with two neighbouring elements of one sequence
\* exchanged, and nothing else
DiffersOnlyInOrder ==
    /\ HasKey(gs.normal_state, "game_state")
    /\ gs.stopgo_state \in { WithGameState(gs.normal_state, w) :
                               w \in Reorders(DictGet(gs.normal_state, "game_state")) }

\* C26, as stated: stripping keeps the order and the number of the elements of
\* every sequence, and two captures that differ only in the order of the elements
\* of a sequence-valued field are reported as differing.
C26_ReorderedSequencesDiffer ==
    gs.phase = "compared" =>
        /\ \A x \in {gs.normal_state, gs.stopgo_state} :
              KeepsSequences(x, strip_metadata_fields(x))
        /\ DiffersOnlyInOrder => ~gs.match

\* C26, as the comparison behaves: stripping keeps the order and the number of the
\* elements of every sequence it keeps; captures that differ only in the order of
\* the elements of a sequence are reported as differing when the sequence is
\* outside every metadata field and the exchanged elements differ after stripping,
\* and as matching when the sequence is inside a metadata field or the exchanged
\* elements are equal after stripping.
C26_VisibleReorderDiffers ==
    gs.phase = "compared" =>
        /\ \A x \in {gs.normal_state, gs.stopgo_state} :
              KeepsSequences(x, strip_metadata_fields(x))
        /\ ("reorder" \in gs.kinds /\ gs.kinds \subseteq {"reorder", "incidental", "envelope"}) =>
              (gs.match <=> ~gs.visible_reorder)

C26_Witness ==
    /\ gs.phase = "compared"
    /\ DiffersOnlyInOrder
    /\ gs.visible_reorder
    /\ ~gs.match

\* C27: only game_state takes part in the comparison: a change of either capture
\* that leaves both game_state substructures as they were never changes the
\* verdict of compare_gamestates.
C27_SiblingsIgnored ==
    [][ ( /\ gs.phase = "captured" /\ gs'.phase = "captured"
          /\ HasKey(gs'.normal_state, "game_state") /\ HasKey(gs'.stopgo_state, "game_state")
          /\ DictGet(gs'.normal_state, "game_state") = DictGet(gs.normal_state, "game_state")
          /\ DictGet(gs'.stopgo_state, "game_state") = DictGet(gs.stopgo_state, "game_state") )
        => compare_gamestates(gs'.normal_state, gs'.stopgo_state) =
               compare_gamestates(gs.normal_state, gs.stopgo_state) ]_vars

C27_Witness ==
    /\ gs.phase = "compared"
    /\ gs.kinds = {"envelope"}
    /\ gs.edits = MaxEdits
    /\ gs.match
    /\ HasKey(gs.normal_state, "turn")
    /\ ~HasKey(gs.stopgo_state, "timestamp")

\* C39: when neither state file has a top-level game_state entry, two empty
\* structures are compared and a match is reported; when exactly one of them lacks
\* it and the stripped game_state of the other is not empty, a difference is
\* reported.
C39_MissingGameState ==
    gs.phase = "compared" =>
        LET normal_has == HasKey(gs.normal_state, "game_state")
            stopgo_has == HasKey(gs.stopgo_state, "game_state")
            other == IF normal_has THEN gs.normal_state ELSE gs.stopgo_state
        IN  /\ (~normal_has /\ ~stopgo_has) => gs.match
            /\ (normal_has # stopgo_has
                  /\ strip_metadata_fields(DictGet(other, "game_state")) # JObj(<<>>)) =>
                   ~gs.match

\* neither file has a game_state entry, and the two files differ
C39_Witness ==
    /\ gs.phase = "compared"
    /\ ~HasKey(gs.normal_state, "game_state") /\ ~HasKey(gs.stopgo_state, "game_state")
    /\ gs.normal_state # gs.stopgo_state
    /\ gs.match

\* ------------------------------------------- two trials at the same time
\* Two trials run side by side on one machine, each started by the single-scenario
\* command (scripts/snapshot_stress_test_single.py) or by the batch command
\* (tests/snapshot_stress_test.py). Only what touches the snapshot file is kept:
\* the choice of its path, the engine writing it at a stop, the engine loading it
\* on resume, the unlink after the last segment and the removal of the working
\* directory.
MaxTrialStops == 2

Trials == {1, 2}
TempNames == {"mtg_test_a", "mtg_test_b"}

\* scripts: work_dir / "snapshot.json"; tests: Path("/tmp/test_snapshot.json")
WorkDirSnapshot(name) == <<"/tmp/", name, "/snapshot.json">>
FixedSnapshot == <<"/tmp/test_snapshot.json">>

NoFile == [t |-> 0, seg |-> 0]
Written(t, i) == [t |-> t, seg |-> i]

InitTrials ==
    /\ TrialStart
    /\ cardsfolder = FALSE /\ deck_exists = FALSE /\ bin_exists = FALSE
    /\ D = 0 /\ num_replays = 0
    /\ pl = PlIdle
    /\ cl = ClIdle
    /\ dl = Idle
    /\ gs = Idle
    /\ ex = Idle
    /\ bt = Idle
    /\ fl = Idle
    /\ dt = Idle
    /\ \E command \in [Trials -> {"single", "batch"}], stops \in [Trials -> 1..MaxTrialStops] :
          ct = [phase |-> "trials",
                dirs |-> {},
                files |-> [path \in {FixedSnapshot} \cup
                                      { WorkDirSnapshot(name) : name \in TempNames } |-> NoFile],
                trial |-> [t \in Trials |->
                             [pc |-> "new", command |-> command[t], stops |-> stops[t],
                              work_dir |-> "", snapshot_file |-> <<>>, seg |-> 0,
                              resumed |-> <<>>]]]

\* the single command makes a fresh working directory with mkdtemp and puts the
\* snapshot in it; the batch command uses the fixed path
Begin(t) ==
    /\ ct.phase = "trials" /\ ct.trial[t].pc = "new"
    /\ IF ct.trial[t].command = "single"
       THEN \E name \in TempNames \ ct.dirs :
               ct' = [ct EXCEPT !.dirs = ct.dirs \cup {name},
                                !.trial[t].work_dir = name,
                                !.trial[t].snapshot_file = WorkDirSnapshot(name),
                                !.trial[t].pc = "segment"]
       ELSE ct' = [ct EXCEPT !.trial[t].snapshot_file = FixedSnapshot,
                             !.trial[t].pc = "segment"]
    /\ UNCHANGED << trial, pl, cl, dl, gs, ex, bt, fl, dt >>

\* the start of a segment: the first starts the game; a later one needs the
\* snapshot file to exist and the engine loads whatever the file holds
SegmentBegin(t) ==
    /\ ct.phase = "trials" /\ ct.trial[t].pc = "segment"
    /\ \E me \in {ct.trial[t]} :
          IF me.seg = 0
          THEN ct' = [ct EXCEPT !.trial[t].pc = "running"]
          ELSE IF ct.files[me.snapshot_file] = NoFile
               THEN ct' = [ct EXCEPT !.trial[t].pc =
                                        IF me.command = "single" THEN "rmtree" ELSE "done"]
               ELSE ct' = [ct EXCEPT !.trial[t].pc = "running",
                                     !.trial[t].resumed =
                                        Append(me.resumed, ct.files[me.snapshot_file])]
    /\ UNCHANGED << trial, pl, cl, dl, gs, ex, bt, fl, dt >>

\* the end of a segment: at a stop the engine writes the snapshot file; after the
\* last segment the loop is left
SegmentEnd(t) ==
    /\ ct.phase = "trials" /\ ct.trial[t].pc = "running"
    /\ \E me \in {ct.trial[t]} :
          IF me.seg < me.stops
          THEN ct' = [ct EXCEPT !.files[me.snapshot_file] = Written(t, me.seg),
                                !.trial[t].seg = me.seg + 1,
                                !.trial[t].pc = "segment"]
          ELSE ct' = [ct EXCEPT !.trial[t].pc = "unlink"]
    /\ UNCHANGED << trial, pl, cl, dl, gs, ex, bt, fl, dt >>

\* if snapshot_file.exists(): snapshot_file.unlink()
Unlink(t) ==
    /\ ct.phase = "trials" /\ ct.trial[t].pc = "unlink"
    /\ ct' = [ct EXCEPT !.files[ct.trial[t].snapshot_file] = NoFile,
                        !.trial[t].pc = IF ct.trial[t].command = "single"
                                        THEN "rmtree" ELSE "done"]
    /\ UNCHANGED << trial, pl, cl, dl, gs, ex, bt, fl, dt >>

\* finally: shutil.rmtree(work_dir, ignore_errors=True)
RemoveWorkDir(t) ==
    /\ ct.phase = "trials" /\ ct.trial[t].pc = "rmtree"
    /\ ct' = [ct EXCEPT !.dirs = ct.dirs \ {ct.trial[t].work_dir},
                        !.files[ct.trial[t].snapshot_file] = NoFile,
                        !.trial[t].pc = "done"]
    /\ UNCHANGED << trial, pl, cl, dl, gs, ex, bt, fl, dt >>

NextTrials ==
    \E t \in Trials :
        Begin(t) \/ SegmentBegin(t) \/ SegmentEnd(t) \/ Unlink(t) \/ RemoveWorkDir(t)

SpecTrials == InitTrials /\ [][NextTrials]_vars

\* --------------------------------------------- properties of two trials
Active(t) == ct.trial[t].pc \in {"segment", "running", "unlink"}

\* C14: two trials running at the same time never read or write the same snapshot
\* path: while both are between choosing their path and unlinking it the paths
\* differ, every snapshot a trial resumes from was written by that trial, and the
\* file a trial left at a stop is still its own when it comes back for it.
C14_SnapshotPathsIsolated ==
    ct.phase = "trials" =>
        /\ (Active(1) /\ Active(2)) => ct.trial[1].snapshot_file # ct.trial[2].snapshot_file
        /\ \A t \in Trials :
              /\ \A n \in 1..Len(ct.trial[t].resumed) : ct.trial[t].resumed[n].t = t
              /\ (ct.trial[t].pc = "segment" /\ ct.trial[t].seg > 0) =>
                    ct.files[ct.trial[t].snapshot_file] = Written(t, ct.trial[t].seg - 1)


\* ------------------------------------- extract_choices_from_log, line by line
\* The loop of extract_choices_from_log over a transcript, one line per step.
\* `decisions` remembers, for every decision line met, its position, the cursor
\* at that line and what extract_choice_from_line returned; `printed` is what the
\* function has written to the terminal.
MaxLines == 3

ExtractLines ==
    { <<"Alice's turn">>,
      <<"Bob (active)">>,
      <<">>> RANDOM:", "chose ", "1">>,
      <<">>> HEURISTIC:", "chose ", "2", " and ", "chose ", "no attackers">>,
      <<">>> ZERO:", "chose ", "to pass">>,
      <<"Bob's turn", ">>> RANDOM:", "chose ", "1", "0">>,
      <<"Alice", " ", "chose ", "3">> }

InitExtract ==
    /\ TrialStart
    /\ cardsfolder = FALSE /\ deck_exists = FALSE /\ bin_exists = FALSE
    /\ D = 0 /\ num_replays = 0
    /\ pl = PlIdle
    /\ cl = ClIdle
    /\ dl = Idle
    /\ gs = Idle
    /\ ct = Idle
    /\ bt = Idle
    /\ fl = Idle
    /\ dt = Idle
    /\ \E log \in SeqsUpTo(ExtractLines, MaxLines) :
          ex = [phase |-> "lines", lines |-> log, pos |-> 0, current_player |-> "none",
                p1_choices |-> <<>>, p2_choices |-> <<>>, decisions |-> <<>>,
                printed |-> <<>>, total_choices |-> 0]

\* the body of `for line in lines`
ExtractLine ==
    /\ ex.phase = "lines" /\ ex.pos < Len(ex.lines)
    /\ \E line \in {ex.lines[ex.pos + 1]} :
       \E cur \in {NextPlayer(ex.current_player, line)} :
       \E choice \in {IF IsChoiceLine(line) THEN extract_choice_from_line(line) ELSE NoChoice} :
          ex' = [ex EXCEPT
                   !.pos = ex.pos + 1,
                   !.current_player = cur,
                   !.p1_choices = IF choice # NoChoice /\ cur = "p1"
                                  THEN Append(ex.p1_choices, choice) ELSE ex.p1_choices,
                   !.p2_choices = IF choice # NoChoice /\ cur = "p2"
                                  THEN Append(ex.p2_choices, choice) ELSE ex.p2_choices,
                   !.decisions = IF IsChoiceLine(line)
                                 THEN Append(ex.decisions,
                                             [n |-> ex.pos + 1, player |-> cur, option |-> choice])
                                 ELSE ex.decisions]
    /\ UNCHANGED << trial, pl, cl, dl, gs, ct, bt, fl, dt >>

\* return p1_choices, p2_choices; run_stop_and_go_game counts them for the planner
ExtractReturn ==
    /\ ex.phase = "lines" /\ ex.pos = Len(ex.lines)
    /\ ex' = [ex EXCEPT !.phase = "returned",
                        !.total_choices = TotalChoices(ex.p1_choices, ex.p2_choices)]
    /\ UNCHANGED << trial, pl, cl, dl, gs, ct, bt, fl, dt >>

NextExtract == ExtractLine \/ ExtractReturn

SpecExtract == InitExtract /\ [][NextExtract]_vars

\* ------------------------------------------------ properties of the extraction
\* the player a line names as the turn owner, read off the line alone
MarkerOwner(line) ==
    IF \E n \in 1..Len(line) : line[n] \in {"Alice's turn", "Alice (active)"} THEN "p1"
    ELSE IF \E n \in 1..Len(line) : line[n] \in {"Bob's turn", "Bob (active)"} THEN "p2"
    ELSE "none"

\* the owner named by the last marker line among the first n lines
OwnerAt(lines, n) ==
    LET markers == { m \in 1..n : MarkerOwner(lines[m]) # "none" }
    IN  IF markers = {} THEN "none"
        ELSE MarkerOwner(lines[CHOOSE m \in markers : \A k \in markers : k <= m])

OptionsOf(decisions, player) ==
    LET mine == SelectSeq(decisions, LAMBDA d : d.player = player /\ d.option # NoChoice)
    IN  [k \in 1..Len(mine) |-> mine[k].option]

\* C28: each extracted decision is appended to the list of the player named by the
\* most recent turn-owner marker seen up to its line, the cursor changes only on
\* marker lines, and each player's list keeps the order of the transcript.
C28_OwnerIsLastMarker ==
    ex.phase # "none" =>
        /\ ex.current_player = OwnerAt(ex.lines, ex.pos)
        /\ \A k \in 1..Len(ex.decisions) :
              /\ ex.decisions[k].player = OwnerAt(ex.lines, ex.decisions[k].n)
              /\ k > 1 => ex.decisions[k - 1].n < ex.decisions[k].n
        /\ ex.p1_choices = OptionsOf(ex.decisions, "p1")
        /\ ex.p2_choices = OptionsOf(ex.decisions, "p2")
        /\ ex.phase = "returned" =>
              /\ extract_choices_from_log(ex.lines).p1 = ex.p1_choices
              /\ extract_choices_from_log(ex.lines).p2 = ex.p2_choices

C28_Witness ==
    /\ ex.phase = "returned"
    /\ Len(ex.lines) = MaxLines
    /\ ex.p1_choices = <<1>>
    /\ ex.p2_choices = <<10>>
    /\ ex.lines[1] = <<"Alice's turn">>

HasNoOption(line) ==
    /\ \E n \in 1..Len(line) : line[n] \in {">>> RANDOM:", ">>> HEURISTIC:", ">>> ZERO:"}
    /\ ~\E n \in 1..(Len(line) - 1) :
           line[n] = "chose " /\ (line[n + 1] = "no attackers" \/ IsDigit(line[n + 1]))

\* C29: a decision line from which no option can be extracted does not abort the
\* extraction: it adds no choice to either list, the walk goes on to the end of
\* the transcript, and the omission is logged.
C29_OmissionLogged ==
    ex.phase # "none" =>
        /\ ex.phase = "returned" => ex.pos = Len(ex.lines)
        /\ Len(ex.p1_choices) + Len(ex.p2_choices) =
              Cardinality({ n \in 1..ex.pos : /\ IsChoiceLine(ex.lines[n])
                                              /\ ~HasNoOption(ex.lines[n])
                                              /\ OwnerAt(ex.lines, n) # "none" })
        /\ \A n \in 1..ex.pos :
              HasNoOption(ex.lines[n]) => \E k \in 1..Len(ex.printed) : ex.printed[k].n = n

\* the number written by the digit tokens at positions i..j of the line
Spells(line, i, j, r) ==
    /\ r >= 0 /\ r < 10 ^ (j - i + 1)
    /\ \A k \in i..j : line[k] = Digit((r \div (10 ^ (j - k))) % 10)

\* r is the first integer of the line that directly follows the word "chose"
FirstIntegerAfterChose(line, r) ==
    \E i \in 1..(Len(line) - 1) :
        /\ line[i] = "chose " /\ IsDigit(line[i + 1])
        /\ \A h \in 1..(i - 1) : ~(line[h] = "chose " /\ IsDigit(line[h + 1]))
        /\ \E j \in (i + 1)..Len(line) :
              /\ \A k \in (i + 1)..j : IsDigit(line[k])
              /\ j = Len(line) \/ ~IsDigit(line[j + 1])
              /\ Spells(line, i + 1, j, r)

HasNoChoicePhrase(line) ==
    \E n \in 1..(Len(line) - 1) : line[n] = "chose " /\ line[n + 1] = "no attackers"

\* C30: for a decision line the extracted option is 0 when the line holds the
\* no-choice phrase, whatever numbers it holds; otherwise it is the first integer
\* that follows the word chose; every extracted option is an integer >= 0.
C30_OptionOfLine ==
    ex.phase # "none" =>
        \A k \in 1..Len(ex.decisions) :
            LET line == ex.lines[ex.decisions[k].n]
                option == ex.decisions[k].option
            IN  /\ HasNoChoicePhrase(line) => option = 0
                /\ (~HasNoChoicePhrase(line) /\ option # NoChoice) =>
                      FirstIntegerAfterChose(line, option)
                /\ option # NoChoice => option >= 0
                /\ option = NoChoice => HasNoOption(line)

C30_Witness ==
    /\ ex.phase = "returned"
    /\ \E k \in 1..Len(ex.decisions) :
          /\ ex.decisions[k].option = 0
          /\ FirstIntegerAfterChose(ex.lines[ex.decisions[k].n], 2)
    /\ \E k \in 1..Len(ex.decisions) : ex.decisions[k].option = 10


\* the decision lines with an extractable option at or after the first marker
CountedDecisions(lines) ==
    { n \in 1..Len(lines) :
        /\ \E k \in 1..Len(lines[n]) :
               lines[n][k] \in {">>> RANDOM:", ">>> HEURISTIC:", ">>> ZERO:"}
        /\ ~HasNoOption(lines[n])
        /\ \E m \in 1..n : MarkerOwner(lines[m]) # "none" }

\* C37: the total decision count given to the planner is the number of decision
\* lines of the continuous transcript that have an extractable option and come
\* after at least one turn-owner marker; decision lines before any marker belong
\* to neither player and are not counted.
C37_TotalCountsOwnedDecisions ==
    ex.phase = "returned" =>
        /\ ex.total_choices = Cardinality(CountedDecisions(ex.lines))
        /\ \A k \in 1..Len(ex.decisions) :
               (\A m \in 1..ex.decisions[k].n : MarkerOwner(ex.lines[m]) = "none") =>
                   ex.decisions[k].player = "none"

\* a transcript that starts with a decision line with an option, before any
\* marker, and has two decisions after a marker
C37_Witness ==
    /\ ex.phase = "returned"
    /\ Len(ex.decisions) = 3
    /\ ex.decisions[1].player = "none" /\ ex.decisions[1].option # NoChoice
    /\ ex.total_choices = 2


\* ------------------------------------------------------ the batch command
\* main of tests/snapshot_stress_test.py: a fixed list of decks, one pairing of
\* strategies (random vs heuristic), one test per deck whose file exists. The
\* engine and the two comparisons are the environment: a continuous run exits 0,
\* exits with another code or runs into the timeout; a segmented run returns a
\* log, returns "" or runs into the timeout; each comparison matches or not.
NumDecks == 3

InitBatch ==
    /\ TrialStart
    /\ cardsfolder = FALSE /\ deck_exists = FALSE /\ bin_exists = FALSE
    /\ D = 0 /\ num_replays = 0
    /\ pl = PlIdle
    /\ cl = ClIdle
    /\ dl = Idle
    /\ gs = Idle
    /\ ct = Idle
    /\ ex = Idle
    /\ fl = Idle
    /\ dt = Idle
    /\ \E folder \in BOOLEAN, binary \in BOOLEAN, decks \in [1..NumDecks -> BOOLEAN] :
          bt = [pc |-> "start", cardsfolder |-> folder, bin_exists |-> binary,
                deck_exists |-> decks, deck |-> 1, results |-> <<>>, all_passed |-> TRUE,
                summary |-> <<>>, summary_printed |-> FALSE, exit_code |-> NotExited,
                exception |-> "none"]

\* main up to the loop: no cardsfolder is exit 0, no binary is exit 1
BatchMain ==
    /\ bt.pc = "start"
    /\ bt' = IF ~bt.cardsfolder THEN [bt EXCEPT !.pc = "exited", !.exit_code = 0]
             ELSE IF ~bt.bin_exists THEN [bt EXCEPT !.pc = "exited", !.exit_code = 1]
             ELSE [bt EXCEPT !.pc = "loop"]
    /\ UNCHANGED << trial, pl, cl, dl, gs, ct, ex, fl, dt >>

\* the loop head: a deck without a file is skipped, the others are tested
BatchDeck ==
    /\ bt.pc = "loop" /\ bt.deck <= NumDecks
    /\ bt' = IF bt.deck_exists[bt.deck] THEN [bt EXCEPT !.pc = "normal"]
             ELSE [bt EXCEPT !.deck = bt.deck + 1]
    /\ UNCHANGED << trial, pl, cl, dl, gs, ct, ex, fl, dt >>

\* run_normal_game: a non-zero exit code is sys.exit(1); the timeout of
\* subprocess.run is an exception nobody catches
BatchNormalGame ==
    /\ bt.pc = "normal"
    /\ \E outcome \in {"ok", "crash", "timeout"} :
          bt' = IF outcome = "ok" THEN [bt EXCEPT !.pc = "stopgo"]
                ELSE IF outcome = "crash" THEN [bt EXCEPT !.pc = "exited", !.exit_code = 1]
                ELSE [bt EXCEPT !.pc = "exited", !.exit_code = 1,
                                !.exception = "TimeoutExpired"]
    /\ UNCHANGED << trial, pl, cl, dl, gs, ct, ex, fl, dt >>

\* the result of one test is appended and the loop goes on with the next deck
BatchResult(passed) ==
    [bt EXCEPT !.results = Append(bt.results, [deck |-> bt.deck, passed |-> passed]),
               !.all_passed = bt.all_passed /\ passed,
               !.deck = bt.deck + 1,
               !.pc = "loop"]

\* run_stop_and_go_game: "" makes run_test_for_deck return False
BatchStopGo ==
    /\ bt.pc = "stopgo"
    /\ \E outcome \in {"log", "empty", "timeout"} :
          bt' = IF outcome = "log" THEN [bt EXCEPT !.pc = "compare"]
                ELSE IF outcome = "empty" THEN BatchResult(FALSE)
                ELSE [bt EXCEPT !.pc = "exited", !.exit_code = 1,
                                !.exception = "TimeoutExpired"]
    /\ UNCHANGED << trial, pl, cl, dl, gs, ct, ex, fl, dt >>

\* success = log_success and gamestate_success
BatchCompare ==
    /\ bt.pc = "compare"
    /\ \E log_success \in BOOLEAN, gamestate_success \in BOOLEAN :
          bt' = BatchResult(log_success /\ gamestate_success)
    /\ UNCHANGED << trial, pl, cl, dl, gs, ct, ex, fl, dt >>

\* after the loop: the summary, then exit 0 if all_passed else 1
BatchSummary ==
    /\ bt.pc = "loop" /\ bt.deck > NumDecks
    /\ bt' = [bt EXCEPT !.pc = "exited",
                        !.summary = bt.results,
                        !.summary_printed = TRUE,
                        !.exit_code = IF bt.all_passed THEN 0 ELSE 1]
    /\ UNCHANGED << trial, pl, cl, dl, gs, ct, ex, fl, dt >>

NextBatch ==
    BatchMain \/ BatchDeck \/ BatchNormalGame \/ BatchStopGo \/ BatchCompare \/ BatchSummary

SpecBatch == InitBatch /\ [][NextBatch]_vars

\* -------------------------------------------- properties of the batch command
\* C21: the batch command runs every combination of its matrix whose deck file
\* exists, even after an earlier one failed, prints exactly one pass/fail result
\* per combination in the summary, and exits with code 0 exactly when every
\* recorded result is a pass.
C21_EveryCombinationRecorded ==
    (bt.pc = "exited" /\ bt.cardsfolder /\ bt.bin_exists) =>
        LET present == SelectSeq([d \in 1..NumDecks |-> d], LAMBDA d : bt.deck_exists[d])
        IN  /\ bt.summary_printed
            /\ Len(bt.summary) = Len(present)
            /\ \A n \in 1..Len(present) : bt.summary[n].deck = present[n]
            /\ bt.exit_code = 0 <=> \A n \in 1..Len(bt.summary) : bt.summary[n].passed


\* ------------------------------------------------------ the action filter
\* filter_game_actions of the batch command (tests/snapshot_stress_test.py): the
\* same loop with three exclusion tests, none of them for diagnostic markers
IsExcludedBatch(stripped) ==
    LET lower == Lower(stripped)
    IN
    \/ Contains(lower, <<"snapshot">>)
    \/ Contains(lower, <<"resuming">>)
    \/ Contains(stripped, <<"Stopping", " after">>)
    \/ Contains(lower, <<"stopping">>)
    \/ Contains(stripped, <<"Turn ", "number:">>)

KeepsLineBatch(line) ==
    LET stripped == Strip(line)
    IN  /\ stripped # <<>>
        /\ ~IsExcludedBatch(stripped)
        /\ HasKeyword(stripped)

filter_game_actions_batch(log) ==
    LET kept == SelectSeq(log, KeepsLineBatch)
    IN  [n \in 1..Len(kept) |-> Strip(kept[n])]

\* '\n'.join(actions).split('\n'): no action holds a newline, and the empty
\* string splits into one empty line
SplitJoined(actions) == IF actions = <<>> THEN << <<>> >> ELSE actions

\* lines of a transcript: two actions (one indented), notices of a snapshot, a
\* stop, a resume and a turn number that hold a keyword, diagnostic lines that
\* hold a keyword, a blank line and a line without any keyword
MaxLogLines == 3

FilterLines ==
    { <<"Bob", "draws ", "card">>,
      <<" ", "Turn ", "1", " ">>,
      <<"Snapshot", " saved, ", "Turn ", "2">>,
      <<"Stopping", " after", "plays ", "card">>,
      <<"Resuming", "Game Over">>,
      <<"Turn ", "number:", "3">>,
      <<"[STATE:", "Life:", "20">>,
      <<"EMOJI_OK", "wins!">>,
      <<" ">>,
      <<"thinking">> }

InitFilter ==
    /\ TrialStart
    /\ cardsfolder = FALSE /\ deck_exists = FALSE /\ bin_exists = FALSE
    /\ D = 0 /\ num_replays = 0
    /\ pl = PlIdle
    /\ cl = ClIdle
    /\ dl = Idle
    /\ gs = Idle
    /\ ct = Idle
    /\ ex = Idle
    /\ bt = Idle
    /\ dt = Idle
    /\ \E command \in {"single", "batch"}, log \in SeqsUpTo(FilterLines, MaxLogLines) :
          fl = [phase |-> "transcript", command |-> command, log |-> log,
                actions |-> <<>>, again |-> <<>>, refiltered |-> <<>>]

\* the filter of the command that runs
FilterOf(command, log) ==
    IF command = "single" THEN filter_game_actions(log) ELSE filter_game_actions_batch(log)

\* filter_game_actions(log)
FilterLog ==
    /\ fl.phase = "transcript"
    /\ fl' = [fl EXCEPT !.phase = "filtered", !.actions = FilterOf(fl.command, fl.log)]
    /\ UNCHANGED << trial, pl, cl, dl, gs, ct, ex, bt, dt >>

\* the filter once more on the same transcript, and on its own output joined by
\* newlines
FilterAgain ==
    /\ fl.phase = "filtered"
    /\ fl' = [fl EXCEPT !.phase = "refiltered",
                        !.again = FilterOf(fl.command, fl.log),
                        !.refiltered = FilterOf(fl.command, SplitJoined(fl.actions))]
    /\ UNCHANGED << trial, pl, cl, dl, gs, ct, ex, bt, dt >>

NextFilter == FilterLog \/ FilterAgain

SpecFilter == InitFilter /\ [][NextFilter]_vars

\* ------------------------------------------------- properties of the filter
\* a line with a marker of a snapshot, resume, stop or turn-number notice or of a
\* diagnostic line, as the single-scenario filter lists them
HasExclusionMarker(line) == IsExcluded(Strip(line))

\* C31: exclusion runs before inclusion: a line of the transcript that holds a
\* snapshot, resume, stop or diagnostic marker never appears among the filtered
\* actions, even when it also holds a keyword of the action vocabulary.
C31_ExcludedNeverKept ==
    fl.phase # "none" /\ fl.phase # "transcript" =>
        \A n \in 1..Len(fl.log) :
            HasExclusionMarker(fl.log[n]) =>
                \A k \in 1..Len(fl.actions) : fl.actions[k] # Strip(fl.log[n])

\* `a` is a subsequence of `b`
RECURSIVE IsSubsequence(_, _)
IsSubsequence(a, b) ==
    IF a = <<>> THEN TRUE
    ELSE IF b = <<>> THEN FALSE
    ELSE IF Head(a) = Head(b) THEN IsSubsequence(Tail(a), Tail(b))
    ELSE IsSubsequence(a, Tail(b))

\* C32: the filter is order-preserving and idempotent: its result is a
\* subsequence of the stripped non-empty lines of the transcript, a second run on
\* the same transcript gives the same result, and so does a run on its own output
\* joined by newlines.
C32_OrderPreservingIdempotent ==
    fl.phase = "refiltered" =>
        /\ IsSubsequence(fl.actions, StripNonEmpty(fl.log))
        /\ fl.again = fl.actions
        /\ fl.refiltered = fl.actions

\* a transcript of three lines whose first and last are kept and whose middle
\* line is an excluded notice, filtered twice
C32_Witness ==
    /\ fl.phase = "refiltered"
    /\ Len(fl.log) = 3
    /\ Len(fl.actions) = 2
    /\ fl.actions[1] # fl.actions[2]
    /\ fl.actions[2] # fl.log[3]
    /\ HasExclusionMarker(fl.log[2])


\* ------------------------------------------- the snapshot determinism test
\* scripts/test_snapshot_determinism.py: for every choice count of --choice, run
\* the game to that choice of player 1 and snapshot (A), resume from A and
\* snapshot at once (B), compare A and B without their metadata. The two files
\* are temp_dir/snapshot_a.json and temp_dir/snapshot_b.json for every count; the
\* directory is made with exist_ok=True and never emptied. The engine is the
\* environment: it exits 0 and writes the snapshot when the stop is reached, exits
\* 0 without a snapshot when the game ends first, or fails.
MaxCounts == 2
MaxChoice == 3

\* a snapshot file: the test (by position in the list; 0: an earlier run of the
\* command) that had it written, the file it was resumed from, the choice of
\* player 1 it was taken at and the document
NoSnapshotFile == [exists |-> FALSE, by |-> 0, from |-> 0, pos |-> 0, doc |-> JObj(<<>>)]

SnapshotDocAt(pos, id, life) ==
    JObj(<< <<"turn", JNum(pos)>>, <<"choice_id", JNum(id)>>, <<"life", JNum(life)>> >>)

SnapshotFileOf(by, from, pos, id, life) ==
    [exists |-> TRUE, by |-> by, from |-> from, pos |-> pos,
     doc |-> SnapshotDocAt(pos, id, life)]

\* a file an earlier run of the command left in temp_dir
LeftBehind == SnapshotFileOf(0, 0, 1, 1, StartLife)

\* one engine process of step 1: [returncode, timeout, the file after the run]
RunToSnapshotResult(outcome, game, k, choice_count, file) ==
    [ timeout |-> outcome = "timeout",
      returncode |-> IF outcome = "ok" THEN 0 ELSE 1,
      file |-> IF outcome = "ok" /\ choice_count <= game
               THEN SnapshotFileOf(k, 0, choice_count, choice_count, StartLife)
               ELSE file ]

\* one engine process of step 2: it loads snapshot_in and, stopping after zero new
\* choices, writes snapshot_out
ResumeResult(outcome, k, snapshot_in, file) ==
    [ timeout |-> outcome = "timeout",
      returncode |-> IF outcome \in {"ok", "diverge", "no_snapshot"} THEN 0 ELSE 1,
      file |-> IF outcome \in {"ok", "diverge"}
               THEN SnapshotFileOf(k, snapshot_in.by, snapshot_in.pos, snapshot_in.pos + 1,
                                   IF outcome = "diverge" THEN StartLife - 1 ELSE StartLife)
               ELSE file ]

\* compare_snapshots: strip_metadata(snap1) == strip_metadata(snap2), an equality
\* of dicts, which does not look at the order of the keys
compare_snapshots(snap1, snap2) ==
    json_dumps_sorted(strip_metadata(snap1)) = json_dumps_sorted(strip_metadata(snap2))

\* the record of one test of the list
TestRecord(k, n, passed, run_rc, resume_rc, a, b) ==
    [k |-> k, n |-> n, passed |-> passed, run_rc |-> run_rc, resume_rc |-> resume_rc,
     a |-> a, b |-> b]

InitDeterminism ==
    /\ TrialStart
    /\ cardsfolder = FALSE /\ deck_exists = FALSE /\ bin_exists = FALSE
    /\ D = 0 /\ num_replays = 0
    /\ pl = PlIdle
    /\ cl = ClIdle
    /\ dl = Idle
    /\ gs = Idle
    /\ ct = Idle
    /\ ex = Idle
    /\ bt = Idle
    /\ fl = Idle
    /\ \E build_ok \in BOOLEAN, game \in 1..MaxChoice,
          counts \in SeqsUpTo(1..MaxChoice, MaxCounts) \ {<<>>},
          a \in {NoSnapshotFile, LeftBehind}, b \in {NoSnapshotFile, LeftBehind} :
          dt = [pc |-> "start", build_ok |-> build_ok, game |-> game, choice |-> counts,
                k |-> 1, snapshot_a |-> a, snapshot_b |-> b, run_rc |-> NotExited,
                tests |-> <<>>, all_passed |-> TRUE, exit_code |-> NotExited,
                exception |-> "none"]

\* main up to the loop: cargo build, temp_dir.mkdir(exist_ok=True)
DeterminismMain ==
    /\ dt.pc = "start"
    /\ dt' = IF dt.build_ok THEN [dt EXCEPT !.pc = "run"]
             ELSE [dt EXCEPT !.pc = "exited", !.exit_code = 1]
    /\ UNCHANGED << trial, pl, cl, dl, gs, ct, ex, bt, fl >>

\* a test returns False before the comparison
TestFailed(run_rc, resume_rc, a, b) ==
    [dt EXCEPT !.pc = "run", !.k = dt.k + 1, !.all_passed = FALSE,
               !.snapshot_a = a, !.snapshot_b = b,
               !.tests = Append(dt.tests, TestRecord(dt.k, dt.choice[dt.k], FALSE,
                                                     run_rc, resume_rc, a, b))]

\* step 1, run_to_snapshot: False on a non-zero exit code, else snapshot_path.exists()
RunToSnapshot(outcome) ==
    /\ dt.pc = "run" /\ dt.k <= Len(dt.choice)
    /\ \E result \in {RunToSnapshotResult(outcome, dt.game, dt.k, dt.choice[dt.k],
                                          dt.snapshot_a)} :
          dt' = IF result.timeout
                THEN [dt EXCEPT !.pc = "exited", !.exit_code = 1,
                                !.exception = "TimeoutExpired"]
                ELSE IF result.returncode # 0 \/ ~result.file.exists
                THEN TestFailed(result.returncode, NotExited, result.file, dt.snapshot_b)
                ELSE [dt EXCEPT !.pc = "resume", !.snapshot_a = result.file,
                                !.run_rc = result.returncode]
    /\ UNCHANGED << trial, pl, cl, dl, gs, ct, ex, bt, fl >>

\* step 2, resume_and_snapshot_immediately: False on a non-zero exit code, else
\* snapshot_out.exists()
ResumeAndSnapshot(outcome) ==
    /\ dt.pc = "resume"
    /\ \E result \in {ResumeResult(outcome, dt.k, dt.snapshot_a, dt.snapshot_b)} :
          dt' = IF result.timeout
                THEN [dt EXCEPT !.pc = "exited", !.exit_code = 1,
                                !.exception = "TimeoutExpired"]
                ELSE IF result.returncode # 0 \/ ~result.file.exists
                THEN TestFailed(dt.run_rc, result.returncode, dt.snapshot_a, result.file)
                ELSE [dt EXCEPT !.pc = "compare", !.snapshot_b = result.file]
    /\ UNCHANGED << trial, pl, cl, dl, gs, ct, ex, bt, fl >>

\* step 3: the test passes when compare_snapshots reports a match
CompareSnapshots ==
    /\ dt.pc = "compare"
    /\ \E matches \in {compare_snapshots(dt.snapshot_a.doc, dt.snapshot_b.doc)} :
          dt' = [dt EXCEPT !.pc = "run", !.k = dt.k + 1,
                           !.all_passed = dt.all_passed /\ matches,
                           !.tests = Append(dt.tests,
                                            TestRecord(dt.k, dt.choice[dt.k], matches,
                                                       dt.run_rc, 0, dt.snapshot_a,
                                                       dt.snapshot_b))]
    /\ UNCHANGED << trial, pl, cl, dl, gs, ct, ex, bt, fl >>

\* after the loop: return 0 if all_passed else 1
DeterminismSummary ==
    /\ dt.pc = "run" /\ dt.k > Len(dt.choice)
    /\ dt' = [dt EXCEPT !.pc = "exited", !.exit_code = IF dt.all_passed THEN 0 ELSE 1]
    /\ UNCHANGED << trial, pl, cl, dl, gs, ct, ex, bt, fl >>

NextDeterminism ==
    \/ DeterminismMain
    \/ \E outcome \in {"ok", "crash", "timeout"} : RunToSnapshot(outcome)
    \/ \E outcome \in {"ok", "diverge", "no_snapshot", "crash", "timeout"} :
           ResumeAndSnapshot(outcome)
    \/ CompareSnapshots
    \/ DeterminismSummary

SpecDeterminism == InitDeterminism /\ [][NextDeterminism]_vars

\* ------------------------------------ properties of the determinism test
\* C36: the test for a choice count N passes only if snapshot A was written by
\* this test's own run to choice N, snapshot B by this test's own resume from A
\* with zero new choices, both processes exited with code 0 and A equals B without
\* the metadata; for every choice count of a list tested in sequence in the same
\* directory.
C36_PassOnlyOnOwnSnapshots ==
    \A n \in 1..Len(dt.tests) :
        LET t == dt.tests[n]
        IN  t.passed =>
                /\ t.a.exists /\ t.a.by = t.k /\ t.a.pos = t.n
                /\ t.b.exists /\ t.b.by = t.k /\ t.b.from = t.k /\ t.b.pos = t.n
                /\ t.run_rc = 0 /\ t.resume_rc = 0
                /\ strip_metadata(t.a.doc) = strip_metadata(t.b.doc)

====
